---- MODULE Spec2Model ----
(***************************************************************************)
(* Real-time room broadcast subsystem of the campus chat backend:          *)
(* backend/websocket.py (ConnectionManager), backend/routes.py             *)
(* (websocket_endpoint), backend/rate_limit.py, backend/validation.py.     *)
(*                                                                         *)
(* Every connection handler is a coroutine on one asyncio event loop.  A   *)
(* step of the model is the code a handler runs between two awaits: it     *)
(* resumes from the await it was suspended in and runs up to the next one. *)
(***************************************************************************)
EXTENDS Integers, Sequences, FiniteSets, TLC

\* ---------------------------------------------------------------- bounds
NumRooms == 2
NumUsers == 3
MaxWs == 3
ReconnWs == 4
AuthWs == 2
FanK == 3
ChatK == 2
ToggleK == 1
MaxRequests == 1
RoomK == 2
MaxLive == 3
MaxEvents == 1
MaxDrops == 1
NumIds == 2
MaxCalls == 12
MaxTicks == 3
MaxPad == 1
MaxOld == 1

Rooms == 1..NumRooms
Users == 1..NumUsers
Max2(a, b) == IF a > b THEN a ELSE b
Conns == 1..Max2(MaxWs, Max2(ReconnWs, Max2(FanK, Max2(ChatK, 2 * RoomK))))

\* ------------------------------------------------ dict of one room
\* A Python dict keeps its entries in insertion order; a deleted entry
\* leaves a dummy slot behind and a new key is appended after the last slot.
Dummy == [u |-> 0, ws |-> 0]

NoRoom == [present |-> FALSE, slots |-> <<>>]

Used(d) == Cardinality({i \in DOMAIN d : d[i].u # 0})

HasKey(d, u) == \E i \in DOMAIN d : d[i].u = u

Lookup(d, u) == IF HasKey(d, u) THEN d[CHOOSE i \in DOMAIN d : d[i].u = u].ws ELSE 0

\* a del that empties the dict
DictDel_Clear(d, u) == [i \in DOMAIN d |-> Dummy]

DictDel(d, u) == [i \in DOMAIN d |-> IF d[i].u = u THEN Dummy ELSE d[i]]

DictSet(d, u, w) ==
    IF HasKey(d, u)
    THEN [i \in DOMAIN d |-> IF d[i].u = u THEN [u |-> u, ws |-> w] ELSE d[i]]
    ELSE Append(d, [u |-> u, ws |-> w])

Keys(d) == {d[i].u : i \in {k \in DOMAIN d : d[k].u # 0}}

\* index of the first live slot after position i, 0 when there is none
NextLive(d, i) ==
    IF \E j \in DOMAIN d : j > i /\ d[j].u # 0
    THEN CHOOSE j \in DOMAIN d : j > i /\ d[j].u # 0
                                 /\ \A k \in DOMAIN d : (k > i /\ d[k].u # 0) => j <= k
    ELSE 0

VARIABLES
    active_connections,  \* room -> [present, slots]
    typing_users,        \* room -> set of users with a typing entry
    pc,                  \* handler -> await it is suspended in
    room, user,          \* handler -> room_id, user_id of websocket_endpoint
    oldws,               \* handler -> old_websocket of its connect call (0: none)
    bc,                  \* handler -> frame of its broadcast_to_room call
    closed,              \* handle -> the server has sent a close on it
    peerGone,            \* handle -> the peer has closed or lost the channel
    sentClosed,          \* handles a send was attempted on after their close
    presence,            \* handle -> the user_joined/user_left events sent to it
    nevents,             \* inbound events received so far
    ndrops,              \* channels closed by their peer so far
    now,                 \* datetime.utcnow(), in seconds
    user_message_timestamps,  \* user -> stored timestamps
    rl_result,           \* the latest check_rate_limit call and what it returned
    admitted,            \* user -> times of all its admitted calls, never pruned
    viaRooms,            \* user -> rooms its admitted calls came through
    ncalls,              \* check_rate_limit calls of the limiter specification
    store,               \* the messages table, in id order
    errors,              \* handle -> error events sent to it
    toggles              \* the latest two reaction toggles carried out, in order

regVars == <<active_connections, typing_users, pc, room, user, oldws, bc,
             closed, peerGone, sentClosed, presence, nevents, ndrops>>
rateVars == <<now, user_message_timestamps, rl_result, admitted, viaRooms, ncalls>>
chatVars == <<store, errors, toggles>>
vars == <<regVars, rateVars, chatVars>>

\* get_room_users
get_room_users(ac, r) == IF ac[r].present THEN Keys(ac[r].slots) ELSE {}

Registered(ac, r, u) == ac[r].present /\ HasKey(ac[r].slots, u)

Handle(ac, r, u) == IF Registered(ac, r, u) THEN Lookup(ac[r].slots, u) ELSE 0

\* disconnect without the removal of a room left empty
disconnect_KeepRoom(ac, r, u) ==
    IF Registered(ac, r, u)
    THEN [ac EXCEPT ![r].slots = DictDel(ac[r].slots, u)]
    ELSE ac

\* ConnectionManager.disconnect
disconnect(ac, r, u) ==
    IF Registered(ac, r, u)
    THEN LET d == DictDel(ac[r].slots, u) IN
         IF Used(d) = 0 THEN [ac EXCEPT ![r] = NoRoom]
                        ELSE [ac EXCEPT ![r].slots = d]
    ELSE ac

\* the clean-up pass of broadcast_to_room: disconnect every user of the list
RECURSIVE disconnectAll(_, _, _)
disconnectAll(ac, r, us) ==
    IF us = <<>> THEN ac ELSE disconnectAll(disconnect(ac, r, Head(us)), r, Tail(us))

\* frame of a broadcast_to_room call: the dict iterator (i, used, len), the
\* disconnected list, the handles the event was delivered to (got), the
\* handles a send was attempted on after their close (onClosed), and the
\* slots of the dict when the call started (snap)
\* the JSON objects handed to broadcast_to_room: a presence event, a typing
\* event, a stored message
\* reply_to_message of a message that is no reply: None
NoReply == [id |-> 0, content |-> [prefix |-> 0, dots |-> FALSE], display_name |-> <<>>]

NoEvent ==
    [type |-> "none", user_id |-> 0, id |-> 0, is_typing |-> FALSE, reactions |-> <<>>,
     reply_to_message |-> NoReply]

user_event(event_type, user_id) ==
    [NoEvent EXCEPT !.type = event_type, !.user_id = user_id]

typing_event(user_id, is_typing) ==
    [NoEvent EXCEPT !.type = "typing", !.user_id = user_id, !.is_typing = is_typing]

message_data(id, user_id) ==
    [NoEvent EXCEPT !.type = "message", !.user_id = user_id, !.id = id]

reaction_update(id, reactions) ==
    [NoEvent EXCEPT !.type = "reaction_update", !.id = id, !.reactions = reactions]

IdleFrame ==
    [kind |-> "none", excl |-> 0, i |-> 0, used |-> 0, len |-> 0, disc |-> <<>>,
     got |-> <<>>, snap |-> <<>>, onClosed |-> {}, outcome |-> "idle",
     message |-> NoEvent]

\* broadcast_to_room without the try/except around send_json: a failed send
\* raises out of the loop
RECURSIVE IterLoopNoExcept(_, _)
IterLoopNoExcept(d, f) ==
    IF f.used # Used(d) THEN [f EXCEPT !.outcome = "raised"]
    ELSE LET j == NextLive(d, f.i) IN
      IF j = 0 THEN [f EXCEPT !.outcome = "end"]
      ELSE IF f.len = 0 THEN [f EXCEPT !.outcome = "raised"]
      ELSE LET e == d[j]
               g == [f EXCEPT !.i = j, !.len = f.len - 1] IN
        IF e.u = f.excl THEN IterLoopNoExcept(d, g)
        ELSE IF closed[e.ws] \/ peerGone[e.ws] THEN [g EXCEPT !.outcome = "raised"]
        ELSE [g EXCEPT !.got = Append(@, e.ws), !.outcome = "sending"]

\* the for loop of broadcast_to_room from the iterator's next() up to the
\* first send that suspends, or the end of the loop, or a raise
RECURSIVE IterLoop(_, _)
IterLoop(d, f) ==
    IF f.used # Used(d) THEN [f EXCEPT !.outcome = "raised"]
    ELSE LET j == NextLive(d, f.i) IN
      IF j = 0 THEN [f EXCEPT !.outcome = "end"]
      ELSE IF f.len = 0 THEN [f EXCEPT !.outcome = "raised"]
      ELSE LET e == d[j]
               g == [f EXCEPT !.i = j, !.len = f.len - 1] IN
        IF e.u = f.excl THEN IterLoop(d, g)
        ELSE IF closed[e.ws]
          THEN IterLoop(d, [g EXCEPT !.disc = Append(@, e.u),
                                     !.onClosed = @ \cup {e.ws}])
        ELSE IF peerGone[e.ws]
          THEN [g EXCEPT !.disc = Append(@, e.u), !.outcome = "sending"]
        ELSE [g EXCEPT !.got = Append(@, e.ws), !.outcome = "sending"]

\* The code of handler h from label m0.at up to its next await; the registers
\* are bound as a value, m, before the label is dispatched on.
RECURSIVE Run(_, _)
Run(h, m0) ==
  CHOOSE res \in {
    LET r == m.room
        u == m.user IN
    CASE m.at = "bc_start" ->
           IF ~m.ac[r].present
           THEN Run(h, [m EXCEPT !.at = "bc_ret"])
           ELSE Run(h, [m EXCEPT !.at = "bc_loop",
                                 !.f.used = Used(m.ac[r].slots),
                                 !.f.len = Used(m.ac[r].slots),
                                 !.f.snap = m.ac[r].slots])
      [] m.at = "bc_loop" ->
           LET g == IterLoop(m.ac[r].slots, m.f) IN
           IF g.outcome = "sending"
             THEN [m EXCEPT !.f = [g EXCEPT !.onClosed = {}], !.at = "bc_send",
                            !.sc = @ \cup g.onClosed,
                            !.rcv = IF Len(g.got) > Len(m.f.got)
                                      THEN g.got[Len(g.got)] ELSE 0]
           ELSE IF g.outcome = "raised"
             THEN Run(h, [m EXCEPT !.at = "bc_raise", !.sc = @ \cup g.onClosed])
           ELSE LET ac2 == disconnectAll(m.ac, r, g.disc) IN
                Run(h, [m EXCEPT
                    !.ac = ac2,
                    !.sc = @ \cup g.onClosed,
                    !.dropped = @ \cup (IF m.ac[r].present /\ ~ac2[r].present THEN {r} ELSE {}),
                    !.at = "bc_ret"])
      [] m.at = "bc_ret" ->
           IF m.f.kind \in {"joined", "event"}
           THEN Run(h, [m EXCEPT !.at = "await_receive", !.f = IdleFrame])
           ELSE IF m.f.kind = "http" THEN [m EXCEPT !.at = "http_done", !.f = IdleFrame]
           ELSE [m EXCEPT !.at = "done", !.f = IdleFrame]
      [] m.at = "bc_raise" ->
           IF m.f.kind = "joined" THEN [m EXCEPT !.at = "crashed", !.f = IdleFrame]
           ELSE IF m.f.kind = "event" THEN Run(h, [m EXCEPT !.at = "cleanup_failure"])
           ELSE IF m.f.kind = "left_graceful" THEN [m EXCEPT !.at = "crashed", !.f = IdleFrame]
           ELSE IF m.f.kind = "http" THEN [m EXCEPT !.at = "http_raised", !.f = IdleFrame]
           ELSE [m EXCEPT !.at = "done", !.f = IdleFrame]
      [] m.at = "await_receive" ->
           IF closed[h] THEN Run(h, [m EXCEPT !.at = "cleanup_failure"])
                        ELSE [m EXCEPT !.at = "recv"]
      [] m.at \in {"cleanup_graceful", "cleanup_failure"} ->
           LET ac2 == disconnect(m.ac, r, u) IN
           Run(h, [m EXCEPT
               !.ac = ac2,
               !.dropped = @ \cup (IF m.ac[r].present /\ ~ac2[r].present THEN {r} ELSE {}),
               !.f = [IdleFrame EXCEPT
                        !.kind = IF m.at = "cleanup_graceful" THEN "left_graceful"
                                                              ELSE "left_failure",
                        !.excl = u,
                        !.message = user_event("user_left", u)],
               !.at = "bc_start"])
      [] OTHER -> m
    : m \in {m0}} : TRUE

\* the registers of a handler that takes room 1 whatever room it serves
Regs_FirstRoom(h, at) ==
    [at |-> at, room |-> 1, user |-> user[h], ac |-> active_connections,
     f |-> bc[h], dropped |-> {}, sc |-> {}, rcv |-> 0]

\* the registers of handler h at the start of a step
Regs(h, at) ==
    [at |-> at, room |-> room[h], user |-> user[h], ac |-> active_connections,
     f |-> bc[h], dropped |-> {}, sc |-> {}, rcv |-> 0]

\* the event types of broadcast_user_event
PresenceTypes == {"user_joined", "user_left"}

\* an iterator over the dict of a room whose key was deleted can only raise
Stale(f) == [f EXCEPT !.used = -1]

\* write back the registers of handler h at the end of a step
Commit(h, m0) ==
  \E m \in {m0} :
    /\ active_connections' = m.ac
    /\ pc' = [pc EXCEPT ![h] = m.at]
    /\ bc' = [x \in Conns |->
                IF x = h THEN m.f
                ELSE IF pc[x] = "bc_send" /\ room[x] \in m.dropped THEN Stale(bc[x])
                ELSE bc[x]]
    /\ sentClosed' = sentClosed \cup m.sc
    /\ presence' = IF m.rcv # 0 /\ m.f.message.type \in PresenceTypes
                      THEN [presence EXCEPT ![m.rcv] = Append(@, m.f.message)]
                      ELSE presence
    /\ oldws' = [oldws EXCEPT
                   ![h] = IF m.at = "bc_send" /\ m.f.kind = "joined" THEN @ ELSE 0]

\* ---------------------------------------------------------------- inputs
\* credential strings: none supplied, an expired token of user 1, which
\* verify_token rejects, or a token it accepts, whose "sub" is 0, a known user
\* id, or the id of no user
Credentials ==
    {[kind |-> "none", sub |-> 0], [kind |-> "invalid", sub |-> 1]}
      \cup {[kind |-> "token", sub |-> s] : s \in 0..(NumUsers + 1)}

\* step 1 without verify_token: the subject of any token is looked up
resolve_Unverified(cred) ==
    IF cred.kind = "none" THEN 0
    ELSE IF cred.sub \in Users THEN cred.sub
    ELSE 0

\* websocket_endpoint, step 1: the identity a credential resolves to, 0 for none
resolve(cred) ==
    IF cred.kind # "token" THEN 0
    ELSE IF cred.sub = 0 THEN 0
    ELSE IF cred.sub \in Users THEN cred.sub
    ELSE 0

\* Identities and rooms are interchangeable: a new connection names an
\* identity (a room) already in use or the least one not yet in use.
Started == {x \in Conns : pc[x] # "idle"}
Live == {x \in Conns : pc[x] \notin {"idle", "rejected", "done", "crashed"}}
FreshUser(u) == \A v \in Users : v < u => \E x \in Started : user[x] = v
FreshRoom(r) == \A q \in Rooms : q < r => \E x \in Started : room[x] = q

\* inbound events of the registry specification
TypingEvents == {[type |-> "typing", is_typing |-> b] : b \in BOOLEAN}
OtherEvents == {[type |-> "ping"]}

\* ---------------------------------------------------------------- limiter
MAX_MESSAGES_PER_WINDOW == 10
TIME_WINDOW_SECONDS == 60

\* Python's None, as a result component
None == "<None>"

\* the detail check_rate_limit returns with a rejection
RateDetail == "Rate limit exceeded. Maximum 10 messages per 60 seconds."

\* identities the limiter specification calls check_rate_limit for
RateIds == 1..NumIds

\* the clock is read every half window
TickStep == TIME_WINDOW_SECONDS \div 2

\* a pruning that keeps every timestamp
Recent_KeepAll(timestamps, t) == timestamps

\* check_rate_limit: the timestamps kept are those after window_start
Recent(timestamps, t) ==
    SelectSeq(timestamps, LAMBDA ts : ts > t - TIME_WINDOW_SECONDS)

\* check_rate_limit as a rejected call that is recorded all the same
check_rate_limit_Recording(stamps, user_id, t) ==
    LET recent_messages == Recent(stamps[user_id], t) IN
    IF Len(recent_messages) >= MAX_MESSAGES_PER_WINDOW
    THEN [stamps |-> [stamps EXCEPT ![user_id] = Append(recent_messages, t)],
          allowed |-> FALSE, detail |-> RateDetail]
    ELSE [stamps |-> [stamps EXCEPT ![user_id] = Append(recent_messages, t)],
          allowed |-> TRUE, detail |-> None]

\* check_rate_limit(user_id) called at time t: the dict it leaves and the
\* tuple it returns
check_rate_limit(stamps, user_id, t) ==
    LET recent_messages == Recent(stamps[user_id], t) IN
    IF Len(recent_messages) >= MAX_MESSAGES_PER_WINDOW
    THEN [stamps |-> [stamps EXCEPT ![user_id] = recent_messages],
          allowed |-> FALSE, detail |-> RateDetail]
    ELSE [stamps |-> [stamps EXCEPT ![user_id] = Append(recent_messages, t)],
          allowed |-> TRUE, detail |-> None]

\* a call of check_rate_limit(key) made for identity u through room r
RateCall(key, u, r) ==
    LET res == check_rate_limit(user_message_timestamps, key, now) IN
    /\ user_message_timestamps' = res.stamps
    /\ rl_result' = [user |-> u, room |-> r, allowed |-> res.allowed,
                     detail |-> res.detail]
    /\ admitted' = IF res.allowed THEN [admitted EXCEPT ![u] = Append(@, now)]
                                  ELSE admitted
    /\ viaRooms' = IF res.allowed THEN [viaRooms EXCEPT ![u] = @ \cup {r}]
                                  ELSE viaRooms

RateInit ==
    /\ now = 0
    /\ user_message_timestamps = [u \in Users |-> <<>>]
    /\ rl_result = [user |-> 0, room |-> 0, allowed |-> TRUE, detail |-> None]
    /\ admitted = [u \in Users |-> <<>>]
    /\ viaRooms = [u \in Users |-> {}]
    /\ ncalls = 0

\* ---------------------------------------------------------------- content
MAX_MESSAGE_LENGTH == 2000

\* A string, by its runs: leading whitespace, the part from the first to the
\* last character that is not whitespace, trailing whitespace.
Contents ==
    [lead : {0, MaxPad},
     body : {0, 1, MAX_MESSAGE_LENGTH, MAX_MESSAGE_LENGTH + 1},
     trail : {0, MaxPad}]

\* a "content" that is not a string: .strip() raises
NotAString == [lead |-> -1, body |-> -1, trail |-> -1]

StrLen(c) == c.lead + c.body + c.trail

\* str.strip()
strip(c) == IF c.body = 0 THEN [lead |-> 0, body |-> 0, trail |-> 0]
                          ELSE [lead |-> 0, body |-> c.body, trail |-> 0]

\* validate_message without its length rule
validate_message_NoMax(content) ==
    IF StrLen(content) = 0
    THEN [is_valid |-> FALSE, error |-> "Message cannot be empty"]
    ELSE IF StrLen(strip(content)) = 0
    THEN [is_valid |-> FALSE, error |-> "Message cannot be only whitespace"]
    ELSE [is_valid |-> TRUE, error |-> None]

\* validate_message
validate_message(content) ==
    IF StrLen(content) = 0
    THEN [is_valid |-> FALSE, error |-> "Message cannot be empty"]
    ELSE IF StrLen(strip(content)) = 0
    THEN [is_valid |-> FALSE, error |-> "Message cannot be only whitespace"]
    ELSE IF StrLen(strip(content)) > MAX_MESSAGE_LENGTH
    THEN [is_valid |-> FALSE, error |-> "Message must be no more than 2000 characters"]
    ELSE [is_valid |-> TRUE, error |-> None]

\* ---------------------------------------------------------------- reply summary
\* the number of characters of a parent's content that a reply quotes
SummaryChars == 50

\* users.display_name of identity u
display_name(u) == <<"display_name", u>>

\* the quoted content with the ellipsis put on from SummaryChars characters on
Summary_FromLimit(c) ==
    IF StrLen(c) >= SummaryChars
    THEN [prefix |-> IF StrLen(c) < SummaryChars THEN StrLen(c) ELSE SummaryChars,
          dots |-> TRUE]
    ELSE [prefix |-> StrLen(c), dots |-> FALSE]

\* parent.content[:50] + "..." if len(parent.content) > 50 else parent.content:
\* how many leading characters of the content are kept and whether "..." follows
Summary(c) ==
    IF StrLen(c) > SummaryChars
    THEN [prefix |-> IF StrLen(c) < SummaryChars THEN StrLen(c) ELSE SummaryChars,
          dots |-> TRUE]
    ELSE [prefix |-> StrLen(c), dots |-> FALSE]

\* reply_to_info of the stored message id: None when it is no reply or its
\* parent is not found by id, else the parent's id, quoted content and
\* author's display name
reply_to_info(st, id) ==
    IF st[id].reply_to = 0 \/ st[id].reply_to \notin DOMAIN st
    THEN NoReply
    ELSE LET parent == st[st[id].reply_to] IN
         [id |-> st[id].reply_to,
          content |-> Summary(parent.content),
          display_name |-> display_name(parent.user_id)]

\* ---------------------------------------------------------------- reactions
\* the reactions column of a row: NULL, or a JSON object from emoji to the
\* list of the user ids that reacted with it
NullReactions == [null |-> TRUE, map |-> <<>>]
NoReactions == [null |-> FALSE, map |-> <<>>]

\* the emoji field of a reaction event: absent or blank, or an emoji, with or
\* without blanks around it
Emojis == {"thumb", "heart"}
EmojiInputs == {[pad |-> p, sym |-> s] : p \in BOOLEAN, s \in Emojis \cup {""}}

\* the emoji field taken as it was sent, blanks included
EmojiStrip_Raw(e) == IF e.pad THEN " " \o e.sym ELSE e.sym

\* data.get("emoji", "").strip()
EmojiStrip(e) == e.sym

\* list.remove(x): the list without its first x
Remove(list, x) ==
    LET i == CHOOSE k \in DOMAIN list :
                 list[k] = x /\ \A j \in 1..(k - 1) : list[j] # x IN
    SubSeq(list, 1, i - 1) \o SubSeq(list, i + 1, Len(list))

InList(list, x) == \E k \in DOMAIN list : list[k] = x

\* the toggle on the dict held by message.reactions, as the handler and
\* toggle_reaction both write it
toggle(reactions, emoji, user_id) ==
    LET r1 == [e \in DOMAIN reactions \cup {emoji} |->
                 IF e \in DOMAIN reactions THEN reactions[e] ELSE <<>>] IN
    IF InList(r1[emoji], user_id)
    THEN LET l == Remove(r1[emoji], user_id) IN
         IF l = <<>> THEN [e \in DOMAIN r1 \ {emoji} |-> r1[e]]
                     ELSE [r1 EXCEPT ![emoji] = l]
    ELSE [r1 EXCEPT ![emoji] = Append(@, user_id)]

\* `if message.reactions is None:` read as a test for an empty dict
Assigned_WhenEmpty(loaded) == loaded.null \/ loaded.map = <<>>

\* `if message.reactions is None: message.reactions = {}`: the attribute is
\* assigned, and so marked as changed, only when the column is NULL
Assigned(loaded) == loaded.null

\* db_session.commit() then refresh(message): the reactions column is a plain
\* JSON column, so the session writes the dict only when the attribute was
\* assigned (the None case); a dict changed in place is not written, and the
\* refresh loads the row as the table holds it
commit_refresh(loaded, in_memory, assigned) ==
    IF assigned THEN [null |-> FALSE, map |-> in_memory] ELSE loaded

\* the reply_to of a message event: 0 when absent, else a message id
ReplyTargets == 0..(MaxOld + MaxEvents + 1)

\* the parent lookup with its room filter left out
ParentFoundAnyRoom(st, reply_to, room_id) == reply_to \in DOMAIN st

\* the parent query of a reply: Message.id == reply_to, Message.room_id == room_id
ParentFound(st, reply_to, room_id) ==
    reply_to \in DOMAIN st /\ st[reply_to].room_id = room_id

\* the messages table as an earlier run of the server left it
OldMessages ==
    {[room_id |-> r, user_id |-> 1, content |-> [lead |-> 0, body |-> 1, trail |-> 0],
      reply_to |-> 0, reactions |-> NoReactions] : r \in Rooms}

RECURSIVE SeqsUpTo(_, _)
SeqsUpTo(S, n) ==
    IF n = 0 THEN {<<>>}
    ELSE LET T == SeqsUpTo(S, n - 1) IN
         T \cup {Append(t, x) : t \in {q \in T : Len(q) = n - 1}, x \in S}

OldStores == SeqsUpTo(OldMessages, MaxOld)

MessageEvents ==
    {[type |-> "message", content |-> c, reply_to |-> p] :
        c \in Contents \cup {NotAString}, p \in ReplyTargets}

\* the identities that call toggle_reaction: a member of room 1 and one that
\* is in no room
Requesters == {1, NumUsers}

ReactionEvents ==
    {[type |-> "reaction", message_id |-> m, emoji |-> e] :
        m \in ReplyTargets, e \in EmojiInputs}

ChatInit ==
    /\ store = <<>>
    /\ errors = [h \in Conns |-> <<>>]
    /\ toggles = <<>>

Init ==
    /\ active_connections = [r \in Rooms |-> NoRoom]
    /\ typing_users = [r \in Rooms |-> {}]
    /\ pc = [h \in Conns |-> "idle"]
    /\ room = [h \in Conns |-> 0]
    /\ user = [h \in Conns |-> 0]
    /\ oldws = [h \in Conns |-> 0]
    /\ bc = [h \in Conns |-> IdleFrame]
    /\ sentClosed = {}
    /\ presence = [h \in Conns |-> <<>>]
    /\ closed = [h \in Conns |-> FALSE]
    /\ peerGone = [h \in Conns |-> FALSE]
    /\ nevents = 0
    /\ ndrops = 0
    /\ RateInit
    /\ ChatInit

\* websocket_endpoint is entered with a bad credential: close, never register
Reject(h, r, cred) ==
    /\ pc[h] = "idle"
    /\ \A x \in Conns : x < h => pc[x] # "idle"
    /\ resolve(cred) = 0
    /\ closed' = [closed EXCEPT ![h] = TRUE]
    /\ pc' = [pc EXCEPT ![h] = "rejected"]
    /\ UNCHANGED <<active_connections, typing_users, room, user, oldws, bc,
                   peerGone, sentClosed, presence, nevents, ndrops>>
    /\ UNCHANGED <<rateVars, chatVars>>

\* websocket_endpoint authenticates and enters connect: up to the await of
\* old_websocket.close(), or of websocket.accept() when there is no live
\* old handle to close
Connect(h, r, cred, limit) ==
    /\ pc[h] = "idle"
    /\ h <= limit
    /\ \A x \in Conns : x < h => pc[x] # "idle"
    /\ resolve(cred) # 0
    /\ Cardinality(Live) < MaxLive
    /\ FreshUser(resolve(cred)) /\ FreshRoom(r)
    /\ LET u == resolve(cred)
           o == Handle(active_connections, r, u) IN
       /\ room' = [room EXCEPT ![h] = r]
       /\ user' = [user EXCEPT ![h] = u]
       /\ IF o = 0
          THEN /\ pc' = [pc EXCEPT ![h] = "conn_accept"]
               /\ UNCHANGED <<active_connections, closed, oldws>>
          ELSE IF closed[o]
          THEN \* close() raises at once, the except swallows it, del follows
               /\ active_connections' =
                    [active_connections EXCEPT ![r].slots = DictDel(@, u)]
               /\ oldws' = [oldws EXCEPT ![h] = o]
               /\ pc' = [pc EXCEPT ![h] = "conn_accept"]
               /\ UNCHANGED closed
          ELSE /\ closed' = [closed EXCEPT ![o] = TRUE]
               /\ oldws' = [oldws EXCEPT ![h] = o]
               /\ pc' = [pc EXCEPT ![h] = "conn_close"]
               /\ UNCHANGED active_connections
    /\ UNCHANGED <<typing_users, bc, peerGone, sentClosed, presence, nevents, ndrops>>
    /\ UNCHANGED <<rateVars, chatVars>>

\* connect resumes after old_websocket.close(): del of the old entry, which
\* raises KeyError when the entry is gone, then the await of accept()
ConnectDel(h) ==
    /\ pc[h] = "conn_close"
    /\ IF Registered(active_connections, room[h], user[h])
       THEN /\ active_connections' =
                 [active_connections EXCEPT ![room[h]].slots = DictDel(@, user[h])]
            /\ pc' = [pc EXCEPT ![h] = "conn_accept"]
       ELSE /\ pc' = [pc EXCEPT ![h] = "crashed"]
            /\ UNCHANGED active_connections
    /\ oldws' = [oldws EXCEPT ![h] = IF pc'[h] = "crashed" THEN 0 ELSE @]
    /\ UNCHANGED <<typing_users, room, user, bc, closed, peerGone, sentClosed, presence,
                   nevents, ndrops>>
    /\ UNCHANGED <<rateVars, chatVars>>

\* connect resumes after accept(): install the handle, broadcast user_joined
ConnectInstall(h) ==
    /\ pc[h] = "conn_accept"
    /\ LET r == room[h]
           d == IF active_connections[r].present THEN active_connections[r].slots ELSE <<>>
           ac1 == [active_connections EXCEPT
                     ![r] = [present |-> TRUE, slots |-> DictSet(d, user[h], h)]]
           m == Run(h, [Regs(h, "bc_start") EXCEPT
                          !.ac = ac1,
                          !.f = [IdleFrame EXCEPT
                                   !.kind = "joined", !.excl = user[h],
                                   !.message = user_event("user_joined", user[h])]]) IN
       Commit(h, m)
    /\ UNCHANGED <<typing_users, room, user, closed, peerGone, nevents, ndrops>>
    /\ UNCHANGED <<rateVars, chatVars>>

\* broadcast_to_room resumes after a send_json
BroadcastResume(h) ==
    /\ pc[h] = "bc_send"
    /\ Commit(h, Run(h, Regs(h, "bc_loop")))
    /\ UNCHANGED <<typing_users, room, user, closed, peerGone, nevents, ndrops>>
    /\ UNCHANGED <<rateVars, chatVars>>

\* the tracker part with the removal on is_typing False left out
handle_typing_NoRemove(t, r, u, is_typing) ==
    IF is_typing THEN [t EXCEPT ![r] = @ \cup {u}] ELSE t

\* ConnectionManager.handle_typing, the tracker part
handle_typing(t, r, u, is_typing) ==
    IF is_typing THEN [t EXCEPT ![r] = @ \cup {u}] ELSE [t EXCEPT ![r] = @ \ {u}]

\* receive_json can return an event to handler h
CanReceive(h) ==
    /\ pc[h] = "recv" /\ ~closed[h] /\ ~peerGone[h]
    /\ nevents < MaxEvents

\* receive_json returns a typing event
RecvTyping(h, ev) ==
    /\ CanReceive(h)
    /\ ev.type = "typing"
    /\ nevents' = nevents + 1
    /\ typing_users' = handle_typing(typing_users, room[h], user[h], ev.is_typing)
    /\ Commit(h, Run(h, [Regs(h, "bc_start") EXCEPT
                           !.f = [IdleFrame EXCEPT
                                    !.kind = "event", !.excl = user[h],
                                    !.message = typing_event(user[h], ev.is_typing)]]))
    /\ UNCHANGED <<room, user, closed, peerGone, ndrops>>
    /\ UNCHANGED <<rateVars, chatVars>>

\* an unknown type tag answered with an error event on the sender's channel
RecvOtherAnswered(h, ev) ==
    /\ CanReceive(h)
    /\ ev.type \notin {"message", "typing", "reaction"}
    /\ nevents' = nevents + 1
    /\ errors' = [errors EXCEPT ![h] = Append(@, "Unknown event type")]
    /\ pc' = [pc EXCEPT ![h] = "err_send"]
    /\ UNCHANGED <<active_connections, bc, sentClosed, presence, oldws>>
    /\ UNCHANGED <<typing_users, room, user, closed, peerGone, ndrops>>
    /\ UNCHANGED <<rateVars, store, toggles>>

\* receive_json returns an event with an unknown type tag: no branch matches
RecvOther(h, ev) ==
    /\ CanReceive(h)
    /\ ev.type \notin {"message", "typing", "reaction"}
    /\ nevents' = nevents + 1
    /\ Commit(h, Run(h, Regs(h, "await_receive")))
    /\ UNCHANGED <<typing_users, room, user, closed, peerGone, ndrops>>
    /\ UNCHANGED <<rateVars, chatVars>>

\* receive_json raises on a frame that is not JSON, or data["type"] is missing
RecvBad(h) ==
    /\ CanReceive(h)
    /\ nevents' = nevents + 1
    /\ Commit(h, Run(h, Regs(h, "cleanup_failure")))
    /\ UNCHANGED <<typing_users, room, user, closed, peerGone, ndrops>>
    /\ UNCHANGED <<rateVars, chatVars>>

\* WebSocketDisconnect caught inside the loop: the handler waits on
RecvDisconnect_Swallowed(h) ==
    /\ pc[h] = "recv"
    /\ closed[h] \/ peerGone[h]
    /\ UNCHANGED vars

\* receive_json raises WebSocketDisconnect: the channel is closed
RecvDisconnect(h) ==
    /\ pc[h] = "recv"
    /\ closed[h] \/ peerGone[h]
    /\ Commit(h, Run(h, Regs(h, "cleanup_graceful")))
    /\ UNCHANGED <<typing_users, room, user, closed, peerGone, nevents, ndrops>>
    /\ UNCHANGED <<rateVars, chatVars>>

\* the peer of an accepted channel closes it or drops off the network
PeerClose(h) ==
    /\ pc[h] = "recv" \/ (pc[h] = "bc_send" /\ bc[h].kind \in {"joined", "event"})
    /\ ~peerGone[h]
    /\ ndrops < MaxDrops
    /\ ndrops' = ndrops + 1
    /\ peerGone' = [peerGone EXCEPT ![h] = TRUE]
    /\ UNCHANGED <<active_connections, typing_users, pc, room, user, oldws, bc,
                   closed, sentClosed, presence, nevents>>
    /\ UNCHANGED <<rateVars, chatVars>>

\* the limiter's answer read as one that always lets the message through
RateLimitedNever(res) == FALSE

\* `if not allowed:` on the tuple check_rate_limit returned
RateLimited(res) == ~res.allowed

\* websocket.send_json of an error event on the handler's own channel
LocalError(h, text) ==
    /\ errors' = [errors EXCEPT ![h] = Append(@, text)]
    /\ pc' = [pc EXCEPT ![h] = "err_send"]
    /\ UNCHANGED <<active_connections, bc, sentClosed, presence, oldws>>

\* receive_json returns a message event: validation, rate limit, reply
\* target, insert, broadcast to the whole room
RecvMessage(h, ev) ==
    /\ CanReceive(h)
    /\ ev.type = "message"
    /\ ev.reply_to <= Len(store) + 1
    /\ nevents' = nevents + 1
    /\ IF ev.content = NotAString
       THEN /\ Commit(h, Run(h, Regs(h, "cleanup_failure")))
            /\ UNCHANGED <<now, user_message_timestamps, rl_result, admitted,
                           viaRooms, store, errors>>
       ELSE LET content == strip(ev.content)
                v == validate_message(content) IN
            IF ~v.is_valid
            THEN /\ LocalError(h, v.error)
                 /\ UNCHANGED <<now, user_message_timestamps, rl_result, admitted,
                                viaRooms, store>>
            ELSE /\ RateCall(user[h], user[h], room[h])
                 /\ UNCHANGED now
                 /\ IF RateLimited(rl_result')
                    THEN /\ LocalError(h, rl_result'.detail)
                         /\ UNCHANGED store
                    ELSE IF /\ ev.reply_to # 0
                            /\ ~ParentFound(store, ev.reply_to, room[h])
                    THEN /\ LocalError(h, "Parent message not found")
                         /\ UNCHANGED store
                    ELSE /\ store' = Append(store,
                                [room_id |-> room[h], user_id |-> user[h],
                                 content |-> content, reply_to |-> ev.reply_to,
                                 reactions |-> NoReactions])
                         /\ Commit(h, Run(h, [Regs(h, "bc_start") EXCEPT
                               !.f = [IdleFrame EXCEPT
                                        !.kind = "event",
                                        !.message = [message_data(Len(store'), user[h]) EXCEPT
                                           !.reply_to_message =
                                              reply_to_info(store', Len(store'))]]]))
                         /\ UNCHANGED errors
    /\ UNCHANGED <<typing_users, room, user, closed, peerGone, ndrops, ncalls,
                   toggles>>

\* the log of toggles with entry t added, cut to its latest two entries
Latest2(log, t) == IF log = <<>> THEN <<t>> ELSE <<log[Len(log)], t>>

\* receive_json returns a reaction event: field check, lookup of the message
\* in the handler's room, toggle, commit and refresh, broadcast to the room
RecvReaction(h, ev) ==
    /\ CanReceive(h)
    /\ ev.type = "reaction"
    /\ ev.message_id <= Len(store) + 1
    /\ nevents' = nevents + 1
    /\ LET message_id == ev.message_id
           emoji == EmojiStrip(ev.emoji) IN
       IF message_id = 0 \/ emoji = ""
       THEN /\ LocalError(h, "message_id and emoji required")
            /\ UNCHANGED <<store, toggles>>
       ELSE IF ~ParentFound(store, message_id, room[h])
       THEN /\ LocalError(h, "Message not found")
            /\ UNCHANGED <<store, toggles>>
       ELSE LET loaded == store[message_id].reactions
                in_memory == toggle(IF loaded.null THEN <<>> ELSE loaded.map,
                                    emoji, user[h])
                row == commit_refresh(loaded, in_memory, Assigned(loaded)) IN
            /\ store' = [store EXCEPT ![message_id].reactions = row]
            /\ toggles' = Latest2(toggles,
                  [via |-> "event", message_id |-> message_id, user_id |-> user[h],
                   emoji |-> emoji, before |-> loaded.map, after |-> row.map,
                   room_id |-> room[h]])
            /\ Commit(h, Run(h, [Regs(h, "bc_start") EXCEPT
                  !.f = [IdleFrame EXCEPT
                           !.kind = "event",
                           !.message = reaction_update(message_id, row.map)]]))
            /\ UNCHANGED errors
    /\ UNCHANGED <<typing_users, room, user, closed, peerGone, ndrops>>
    /\ UNCHANGED rateVars

\* POST /messages/{message_id}/reactions by identity user_id with ReactionRequest
\* emoji, over the table st: the status and detail of the response, the table
\* it leaves, and the room and map of the reaction_update it broadcasts
toggle_reaction_Written(st, message_id, user_id, emoji) ==
    IF message_id \notin DOMAIN st
    THEN [status |-> 404, detail |-> "Message not found", store |-> st,
          room_id |-> 0, reactions |-> <<>>]
    ELSE IF EmojiStrip(emoji) = ""
    THEN [status |-> 400, detail |-> "Emoji cannot be empty", store |-> st,
          room_id |-> 0, reactions |-> <<>>]
    ELSE LET loaded == st[message_id].reactions
             in_memory == toggle(IF loaded.null THEN <<>> ELSE loaded.map,
                                 EmojiStrip(emoji), user_id)
             row == commit_refresh(loaded, in_memory, TRUE) IN
         [status |-> 200, detail |-> "", room_id |-> st[message_id].room_id,
          store |-> [st EXCEPT ![message_id].reactions = row],
          reactions |-> row.map]

toggle_reaction(st, message_id, user_id, emoji) ==
    IF message_id \notin DOMAIN st
    THEN [status |-> 404, detail |-> "Message not found", store |-> st,
          room_id |-> 0, reactions |-> <<>>]
    ELSE IF EmojiStrip(emoji) = ""
    THEN [status |-> 400, detail |-> "Emoji cannot be empty", store |-> st,
          room_id |-> 0, reactions |-> <<>>]
    ELSE LET loaded == st[message_id].reactions
             in_memory == toggle(IF loaded.null THEN <<>> ELSE loaded.map,
                                 EmojiStrip(emoji), user_id)
             row == commit_refresh(loaded, in_memory, Assigned(loaded)) IN
         [status |-> 200, detail |-> "", room_id |-> st[message_id].room_id,
          store |-> [st EXCEPT ![message_id].reactions = row],
          reactions |-> row.map]

\* a request to toggle_reaction is served in task h, up to the first await
\* of its broadcast or to its response
ToggleReaction(h, u, message_id, emoji) ==
    /\ pc[h] = "idle"
    /\ h <= ToggleK + MaxRequests
    /\ \A x \in Conns : x < h => pc[x] # "idle"
    /\ message_id <= Len(store) + 1
    /\ LET res == toggle_reaction(store, message_id, u, emoji) IN
       IF res.status # 200
       THEN /\ errors' = [errors EXCEPT ![h] = Append(@, res.detail)]
            /\ pc' = [pc EXCEPT ![h] = "http_raised"]
            /\ UNCHANGED <<active_connections, bc, sentClosed, presence, oldws, room,
                           store, toggles>>
       ELSE /\ store' = res.store
            /\ toggles' = Latest2(toggles,
                  [via |-> "request", message_id |-> message_id, user_id |-> u,
                   emoji |-> EmojiStrip(emoji),
                   before |-> store[message_id].reactions.map,
                   after |-> res.reactions, room_id |-> res.room_id])
            /\ room' = [room EXCEPT ![h] = res.room_id]
            /\ Commit(h, Run(h, [Regs(h, "bc_start") EXCEPT
                  !.room = res.room_id,
                  !.f = [IdleFrame EXCEPT
                           !.kind = "http",
                           !.message = reaction_update(message_id, res.reactions)]]))
            /\ UNCHANGED errors
    /\ UNCHANGED <<typing_users, user, closed, peerGone, nevents, ndrops>>
    /\ UNCHANGED rateVars

\* the send_json of an error event completes: continue, back to receive_json
ErrorResume(h) ==
    /\ pc[h] = "err_send"
    /\ Commit(h, Run(h, Regs(h, "await_receive")))
    /\ UNCHANGED <<typing_users, room, user, closed, peerGone, nevents, ndrops>>
    /\ UNCHANGED <<rateVars, chatVars>>

\* the clock advances
Tick ==
    /\ now < MaxTicks * TickStep
    /\ now' = now + TickStep
    /\ UNCHANGED <<user_message_timestamps, rl_result, admitted, viaRooms, ncalls>>
    /\ UNCHANGED <<regVars, chatVars>>

\* check_rate_limit under a call that uses one key for every identity
CheckRateLimitOneKey(u, r) ==
    /\ ncalls < MaxCalls
    /\ ncalls' = ncalls + 1
    /\ RateCall(1, u, r)
    /\ UNCHANGED now
    /\ UNCHANGED <<regVars, chatVars>>

\* a handler of identity u serving room r reaches check_rate_limit(user_id)
CheckRateLimit(u, r) ==
    /\ ncalls < MaxCalls
    /\ ncalls' = ncalls + 1
    /\ RateCall(u, u, r)
    /\ UNCHANGED now
    /\ UNCHANGED <<regVars, chatVars>>

Next ==
    \/ \E h \in Conns, r \in Rooms, c \in Credentials : Connect(h, r, c, MaxWs)
    \/ \E h \in Conns : ConnectDel(h)
    \/ \E h \in Conns : ConnectInstall(h)
    \/ \E h \in Conns : BroadcastResume(h)
    \/ \E h \in Conns, ev \in TypingEvents : RecvTyping(h, ev)
    \/ \E h \in Conns, ev \in MessageEvents : RecvMessage(h, ev)
    \/ \E h \in Conns : ErrorResume(h)
    \/ \E h \in Conns, ev \in OtherEvents : RecvOther(h, ev)
    \/ \E h \in Conns : RecvBad(h)
    \/ \E h \in Conns : RecvDisconnect(h)
    \/ \E h \in Conns : PeerClose(h)

Spec == Init /\ [][Next]_vars

\* Reconnection: up to ReconnWs connections to one room, no inbound events,
\* no channel lost; a handler ends when connect supersedes its handle.
NextReconnect ==
    \/ \E h \in Conns, c \in Credentials : Connect(h, 1, c, ReconnWs)
    \/ \E h \in Conns : ConnectDel(h)
    \/ \E h \in Conns : ConnectInstall(h)
    \/ \E h \in Conns : BroadcastResume(h)
    \/ \E h \in Conns : RecvDisconnect(h)

SpecReconnect == Init /\ [][NextReconnect]_vars

\* Authentication: connections present any credential; up to AuthWs of them
\* pass step 1 and register, the others are turned away.
NextAuth ==
    \/ \E h \in Conns, r \in Rooms, c \in Credentials : Reject(h, r, c)
    \/ \E h \in Conns, r \in Rooms, c \in Credentials : Connect(h, r, c, AuthWs)
    \/ \E h \in Conns : ConnectDel(h)
    \/ \E h \in Conns : ConnectInstall(h)
    \/ \E h \in Conns : BroadcastResume(h)
    \/ \E h \in Conns : RecvDisconnect(h)
    \/ \E h \in Conns : PeerClose(h)

SpecAuth == Init /\ [][NextAuth]_vars

\* Life cycle: connections to room 1 register, their reads fail, their peers
\* close; the event loop runs a handler whose await has completed
\* whenever there is one, so the server never idles while a handler can take
\* its next step.
NextLife ==
    \/ \E h \in Conns, c \in Credentials : Connect(h, 1, c, AuthWs)
    \/ \E h \in Conns : ConnectDel(h)
    \/ \E h \in Conns : ConnectInstall(h)
    \/ \E h \in Conns : BroadcastResume(h)
    \/ \E h \in Conns : RecvBad(h)
    \/ \E h \in Conns : RecvDisconnect(h)
    \/ \E h \in Conns : PeerClose(h)

\* a handler whose await has completed takes its next step
Resume ==
    \E h \in Conns :
        ConnectDel(h) \/ ConnectInstall(h) \/ BroadcastResume(h) \/ RecvDisconnect(h)

Scheduling == WF_vars(Resume)

SpecLife == Init /\ [][NextLife]_vars /\ Scheduling

\* the user_joined events sent so far to the i-th of k members that joined a
\* room in the order of their identities
JoinsSeen(k, i) == [j \in 1..(k - i) |-> user_event("user_joined", i + j)]

\* Room 1 holds k members that connected one after the other, each suspended
\* in receive_json.
Members(k) ==
    /\ active_connections =
         [r \in Rooms |-> IF r = 1
                            THEN [present |-> TRUE,
                                  slots |-> [i \in 1..k |-> [u |-> i, ws |-> i]]]
                            ELSE NoRoom]
    /\ typing_users = [r \in Rooms |-> {}]
    /\ pc = [h \in Conns |-> IF h <= k THEN "recv" ELSE "idle"]
    /\ room = [h \in Conns |-> IF h <= k THEN 1 ELSE 0]
    /\ user = [h \in Conns |-> IF h <= k THEN h ELSE 0]
    /\ oldws = [h \in Conns |-> 0]
    /\ bc = [h \in Conns |-> IdleFrame]
    /\ closed = [h \in Conns |-> FALSE]
    /\ peerGone = [h \in Conns |-> FALSE]
    /\ sentClosed = {}
    /\ presence = [h \in Conns |-> IF h <= k THEN JoinsSeen(k, h) ELSE <<>>]
    /\ nevents = 0
    /\ ndrops = 0

InitMembers(k) == Members(k) /\ RateInit /\ ChatInit

\* Fan-out: FanK members send typing events, fail and leave.
NextFanout ==
    \/ \E h \in Conns : BroadcastResume(h)
    \/ \E h \in Conns, ev \in TypingEvents : RecvTyping(h, ev)
    \/ \E h \in Conns : RecvBad(h)
    \/ \E h \in Conns : RecvDisconnect(h)
    \/ \E h \in Conns : PeerClose(h)

SpecFanout == InitMembers(FanK) /\ [][NextFanout]_vars

\* Chat: ChatK members send message events, fail and leave.
NextChat ==
    \/ \E h \in Conns, ev \in MessageEvents : RecvMessage(h, ev)
    \/ \E h \in Conns : ErrorResume(h)
    \/ \E h \in Conns : BroadcastResume(h)
    \/ \E h \in Conns : RecvDisconnect(h)
    \/ \E h \in Conns : PeerClose(h)

SpecChat == InitMembers(ChatK) /\ [][NextChat]_vars

\* Replies: ChatK members send message events over a messages table that
\* already holds rows, the limiter and the registry being those of a fresh run.
InitReply ==
    /\ Members(ChatK)
    /\ RateInit
    /\ store \in OldStores
    /\ errors = [h \in Conns |-> <<>>]
    /\ toggles = <<>>

NextReply ==
    \/ \E h \in Conns, ev \in MessageEvents : RecvMessage(h, ev)
    \/ \E h \in Conns, ev \in OtherEvents : RecvOther(h, ev)
    \/ \E h \in Conns : ErrorResume(h)
    \/ \E h \in Conns : BroadcastResume(h)

SpecReply == InitReply /\ [][NextReply]_vars

\* Reactions: ChatK members send message and reaction events over a messages
\* table that already holds rows.
NextReact ==
    \/ \E h \in Conns, ev \in MessageEvents : RecvMessage(h, ev)
    \/ \E h \in Conns, ev \in ReactionEvents : RecvReaction(h, ev)
    \/ \E h \in Conns : ErrorResume(h)
    \/ \E h \in Conns : BroadcastResume(h)

SpecReact == InitReply /\ [][NextReact]_vars

\* the messages table with one message of room 1 and one of the next room
ToggleStore ==
    [i \in {1, 2} |-> [room_id |-> i, user_id |-> 1,
                       content |-> [lead |-> 0, body |-> 1, trail |-> 0],
                       reply_to |-> 0, reactions |-> NoReactions]]

\* Toggles: ToggleK members of room 1 send reaction events while requests to
\* toggle_reaction are served, over a messages table that holds a message of
\* their room and one of another room.
NextToggle ==
    \/ \E h \in Conns, ev \in ReactionEvents : RecvReaction(h, ev)
    \/ \E h \in Conns, u \in Requesters, m \in ReplyTargets, e \in EmojiInputs :
          ToggleReaction(h, u, m, e)
    \/ \E h \in Conns : ErrorResume(h)
    \/ \E h \in Conns : BroadcastResume(h)

InitToggle ==
    /\ Members(ToggleK)
    /\ RateInit
    /\ store = ToggleStore
    /\ errors = [h \in Conns |-> <<>>]
    /\ toggles = <<>>

SpecToggle == InitToggle /\ [][NextToggle]_vars

\* Rooms 1 and 2 each hold the identities 1..k, on handles 1..k for room 1 and
\* k+1..2k for room 2, each handler suspended in receive_json.
TwoRoomsRegistry(k) ==
    /\ active_connections =
         [r \in Rooms |-> IF r \in {1, 2}
                            THEN [present |-> TRUE,
                                  slots |-> [i \in 1..k |->
                                               [u |-> i, ws |-> (r - 1) * k + i]]]
                            ELSE NoRoom]
    /\ pc = [h \in Conns |-> IF h <= 2 * k THEN "recv" ELSE "idle"]
    /\ room = [h \in Conns |-> IF h <= k THEN 1 ELSE IF h <= 2 * k THEN 2 ELSE 0]
    /\ user = [h \in Conns |-> IF h <= k THEN h ELSE IF h <= 2 * k THEN h - k ELSE 0]
    /\ oldws = [h \in Conns |-> 0]
    /\ bc = [h \in Conns |-> IdleFrame]
    /\ closed = [h \in Conns |-> FALSE]
    /\ peerGone = [h \in Conns |-> FALSE]
    /\ sentClosed = {}
    /\ presence = [h \in Conns |-> IF h <= k THEN JoinsSeen(k, h)
                                   ELSE IF h <= 2 * k THEN JoinsSeen(k, h - k)
                                   ELSE <<>>]
    /\ nevents = 0
    /\ ndrops = 0

\* the two rooms with no one typing
TwoRooms(k) == TwoRoomsRegistry(k) /\ typing_users = [r \in Rooms |-> {}]

\* Two rooms: the same RoomK identities are members of room 1 and of room 2;
\* they send typing events, fail and leave.
InitRooms == TwoRooms(RoomK) /\ RateInit /\ ChatInit

SpecRooms == InitRooms /\ [][NextFanout]_vars

\* the content lengths of a parent: short, at the quoting limit, one over it,
\* and the longest a message can have
ParentBodies == {1, SummaryChars, SummaryChars + 1, MAX_MESSAGE_LENGTH}

\* Summaries: ChatK members of room 1 send message events, replies among
\* them, over a messages table that holds one message of the room, of any of
\* these lengths and of either of two authors.
InitSummary ==
    /\ Members(ChatK)
    /\ RateInit
    /\ \E b \in ParentBodies, a \in {1, NumUsers} :
          store = <<[room_id |-> 1, user_id |-> a,
                     content |-> [lead |-> 0, body |-> b, trail |-> 0],
                     reply_to |-> 0, reactions |-> NoReactions]>>
    /\ errors = [h \in Conns |-> <<>>]
    /\ toggles = <<>>

NextSummary ==
    \/ \E h \in Conns, ev \in MessageEvents : RecvMessage(h, ev)
    \/ \E h \in Conns : ErrorResume(h)
    \/ \E h \in Conns : BroadcastResume(h)

SpecSummary == InitSummary /\ [][NextSummary]_vars

\* Typing: the members of the two rooms send typing events, fail and leave;
\* identity 1 may have signalled typing in both rooms before.
InitTyping ==
    /\ TwoRoomsRegistry(RoomK)
    /\ \E S \in {{}, {1}} :
          typing_users = [r \in Rooms |-> IF r \in {1, 2} THEN S ELSE {}]
    /\ RateInit /\ ChatInit

SpecTyping == InitTyping /\ [][NextFanout]_vars

\* the rows of k messages that identity 1 sent to room 1
SentRows(k) ==
    [i \in 1..k |-> [room_id |-> 1, user_id |-> 1,
                     content |-> [lead |-> 0, body |-> 1, trail |-> 0],
                     reply_to |-> 0, reactions |-> NoReactions]]

\* Budget: ChatK members of room 1; identity 1 has just sent its whole budget
\* of messages, each admitted, stored and delivered.
InitBudget ==
    /\ Members(ChatK)
    /\ now = 0
    /\ ncalls = 0
    /\ errors = [h \in Conns |-> <<>>]
    /\ toggles = <<>>
    /\ LET k == MAX_MESSAGES_PER_WINDOW IN
         /\ user_message_timestamps =
              [u \in Users |-> IF u = 1 THEN [i \in 1..k |-> 0] ELSE <<>>]
         /\ admitted = [u \in Users |-> IF u = 1 THEN [i \in 1..k |-> 0] ELSE <<>>]
         /\ viaRooms = [u \in Users |-> IF u = 1 THEN {1} ELSE {}]
         /\ rl_result = [user |-> 1, room |-> 1, allowed |-> TRUE, detail |-> None]
         /\ store = SentRows(k)

NextBudget ==
    \/ \E h \in Conns, ev \in MessageEvents : RecvMessage(h, ev)
    \/ \E h \in Conns : ErrorResume(h)
    \/ \E h \in Conns : BroadcastResume(h)
    \/ Tick

SpecBudget == InitBudget /\ [][NextBudget]_vars

\* The limiter alone: one identity calls check_rate_limit, through any room,
\* while the clock runs.
NextRate ==
    \/ Tick
    \/ \E r \in Rooms : CheckRateLimit(1, r)

SpecRate == Init /\ [][NextRate]_vars

\* The limiter alone: several identities call check_rate_limit within one
\* window.
NextRateKeys ==
    \E u \in RateIds, r \in Rooms : CheckRateLimit(u, r)

SpecRateKeys == Init /\ [][NextRateKeys]_vars

\* The limiter over time, next to another identity's budget: identity 1 calls
\* check_rate_limit as the clock advances, identity 2 having been admitted
\* once through room 1 at time 0, or not at all; ncalls counts the calls that
\* follow.
InitWindow ==
    /\ active_connections = [r \in Rooms |-> NoRoom]
    /\ typing_users = [r \in Rooms |-> {}]
    /\ pc = [h \in Conns |-> "idle"]
    /\ room = [h \in Conns |-> 0]
    /\ user = [h \in Conns |-> 0]
    /\ oldws = [h \in Conns |-> 0]
    /\ bc = [h \in Conns |-> IdleFrame]
    /\ sentClosed = {}
    /\ presence = [h \in Conns |-> <<>>]
    /\ closed = [h \in Conns |-> FALSE]
    /\ peerGone = [h \in Conns |-> FALSE]
    /\ nevents = 0
    /\ ndrops = 0
    /\ now = 0
    /\ \E S \in {<<>>, <<0>>} :
          /\ user_message_timestamps = [u \in Users |-> IF u = 2 THEN S ELSE <<>>]
          /\ admitted = [u \in Users |-> IF u = 2 THEN S ELSE <<>>]
          /\ viaRooms = [u \in Users |-> IF u = 2 /\ S # <<>> THEN {1} ELSE {}]
          /\ rl_result = [user |-> IF S = <<>> THEN 0 ELSE 2,
                          room |-> IF S = <<>> THEN 0 ELSE 1,
                          allowed |-> TRUE, detail |-> None]
    /\ ncalls = 0
    /\ ChatInit

SpecWindow == InitWindow /\ [][NextRate]_vars

\* ---------------------------------------------------------------- registry properties
Slots(r) == active_connections[r].slots

Healthy(h) == ~closed[h] /\ ~peerGone[h]

\* connect of handler h returns and the handler suspends in receive_json
ConnectReturns(h) ==
    /\ pc[h] = "conn_accept" \/ (pc[h] = "bc_send" /\ bc[h].kind = "joined")
    /\ pc'[h] = "recv"

\* every other connection ever opened for the pair of h has been closed as
\* superseded: h is the one connection of the pair that should be live
Latest(h) ==
    \A x \in Conns \ {h} :
        (pc[x] # "idle" /\ room[x] = room[h] /\ user[x] = user[h]) => closed[x]

\* C1: the registry never holds two handles for one (room, identity); connect
\* has closed the handle it supersedes before it installs the new one; and
\* when connect returns the pair is registered with the new handle.
C1_ConnectLeavesNewHandle ==
    [][ /\ \A r \in Rooms, u \in Users :
             Cardinality({i \in DOMAIN Slots(r)' : Slots(r)'[i].u = u}) <= 1
        /\ \A h \in Conns :
             (pc[h] = "conn_accept" /\ oldws[h] # 0 /\ pc'[h] # "conn_accept")
               => closed[oldws[h]]
        /\ \A h \in Conns :
             (ConnectReturns(h) /\ oldws[h] # 0 /\ Latest(h))
               => Handle(active_connections', room[h], user[h]) = h
      ]_vars

\* h2 is the latest connection of its (room, identity) and superseded h1
Superseded(h1, h2) ==
    /\ h1 # h2 /\ user[h1] # 0
    /\ room[h1] = room[h2] /\ user[h1] = user[h2]
    /\ closed[h1]
    /\ Latest(h2)

\* C2: after the superseded first handler has run its termination cleanup,
\* the registry still maps the pair to the new handle of the Active new handler.
C2_ReconnectKeepsNewHandle ==
    \A h1, h2 \in Conns :
        (Superseded(h1, h2) /\ pc[h1] \in {"done", "crashed"}
           /\ pc[h2] = "recv" /\ Healthy(h2))
        => Handle(active_connections, room[h2], user[h2]) = h2

\* what the broadcast of handler h does when it resumes now
Resumed(h) == IterLoop(Slots(room[h]), bc[h])

\* no registration or deregistration in the room since the broadcast of h began
Undisturbed(h) ==
    active_connections[room[h]].present /\ bc[h].snap = Slots(room[h])

Count(sq, x) == Cardinality({i \in DOMAIN sq : sq[i] = x})

\* the identities the broadcast of h has attempted a delivery to, in frame g
Attempted(g) == {user[g.got[i]] : i \in DOMAIN g.got} \cup {g.disc[i] : i \in DOMAIN g.disc}

MembersReached(k) ==
    /\ Slots(1) = [i \in 1..k |-> [u |-> i, ws |-> i]]
    /\ \A h \in Conns : IF h <= k
                           THEN pc[h] = "recv" /\ room[h] = 1 /\ user[h] = h /\ Healthy(h)
                           ELSE pc[h] = "idle"
    /\ typing_users = [r \in Rooms |-> {}]
    /\ sentClosed = {} /\ nevents = 0 /\ ndrops = 0
    /\ presence = [h \in Conns |-> IF h <= k THEN JoinsSeen(k, h) ELSE <<>>]
    /\ RateInit /\ ChatInit

FanoutInitReached == MembersReached(FanK)

ChatInitReached == MembersReached(ChatK)

C4_SnapshotFanout ==
    \A h \in Conns :
        pc[h] = "bc_send" =>
          LET g == Resumed(h) IN
          /\ g.outcome # "raised"
          /\ g.outcome = "end" => (Keys(bc[h].snap) \ {g.excl}) \subseteq Attempted(g)

\* C5: no send is attempted on a handle that connect has closed as superseded.
C5_NoSendOnSuperseded == sentClosed = {}

\* C6: a handler in the middle of a broadcast whose own channel is open
\* stays in its event loop.
C6_HandlerIsolation ==
    [][ \A h \in Conns :
          (pc[h] = "bc_send" /\ bc[h].kind = "event" /\ Healthy(h) /\ Healthy(h)')
            => \/ pc'[h] = "recv"
               \/ pc'[h] = "bc_send" /\ bc'[h].kind = "event"
      ]_vars

\* ------------------------------------------------------------ limiter properties
\* admissions of identity u aged at most W at the clock reading t
CountWithin(u, t) ==
    Cardinality({i \in DOMAIN admitted[u] : admitted[u][i] >= t - TIME_WINDOW_SECONDS})

\* admissions of identity u aged less than W at the clock reading t
CountInside(u, t) ==
    Cardinality({i \in DOMAIN admitted[u] : admitted[u][i] > t - TIME_WINDOW_SECONDS})

\* the call returned (False, detail) with a detail that is not empty
Rejected(res) == ~res.allowed /\ res.detail # None /\ res.detail # ""

\* the call returned (True, None)
Admitted(res) == res.allowed /\ res.detail = None

\* no W seconds, both ends included, hold more than N admissions of one identity
WindowCap ==
    \A u \in Users : \A i \in DOMAIN admitted[u] :
        Cardinality({j \in DOMAIN admitted[u] :
                        /\ admitted[u][i] <= admitted[u][j]
                        /\ admitted[u][j] <= admitted[u][i] + TIME_WINDOW_SECONDS})
          <= MAX_MESSAGES_PER_WINDOW

\* the same with the later end left out
WindowCapHalfOpen ==
    \A u \in Users : \A i \in DOMAIN admitted[u] :
        Cardinality({j \in DOMAIN admitted[u] :
                        /\ admitted[u][i] <= admitted[u][j]
                        /\ admitted[u][j] < admitted[u][i] + TIME_WINDOW_SECONDS})
          <= MAX_MESSAGES_PER_WINDOW

\* C7: with N admissions no older than W a call is rejected with a detail,
\* with fewer it is admitted, and so no W seconds hold more than N admissions
\* of one identity.
C7_SlidingWindow ==
    [][/\ \A u \in RateIds, r \in Rooms : CheckRateLimit(u, r) =>
             IF CountWithin(u, now) >= MAX_MESSAGES_PER_WINDOW
             THEN Rejected(rl_result')
             ELSE Admitted(rl_result')
       /\ WindowCap']_vars

\* what C7 says of calls made strictly inside or past the window, the instant
\* at which an admission is exactly W old left aside
SlidingWindowOffBoundary ==
    [][/\ \A u \in RateIds, r \in Rooms : CheckRateLimit(u, r) =>
             /\ CountInside(u, now) >= MAX_MESSAGES_PER_WINDOW => Rejected(rl_result')
             /\ CountWithin(u, now) < MAX_MESSAGES_PER_WINDOW => Admitted(rl_result')
       /\ WindowCapHalfOpen']_vars

\* C8: a rejected call leaves stored exactly the timestamps that were stored
\* and in the window before it and records no admission, and every call's
\* outcome is that of the admissions alone, however many calls were rejected.
C8_RejectionRecordsNothing ==
    [][\A u \in RateIds, r \in Rooms : CheckRateLimit(u, r) =>
          /\ ~rl_result'.allowed =>
               /\ user_message_timestamps'[u] =
                    SelectSeq(user_message_timestamps[u],
                              LAMBDA ts : ts >= now - TIME_WINDOW_SECONDS)
               /\ user_message_timestamps'[u] = Recent(user_message_timestamps[u], now)
               /\ admitted' = admitted
          /\ rl_result'.allowed <=> CountInside(u, now) < MAX_MESSAGES_PER_WINDOW]_vars

\* a call is rejected after an earlier rejection, the clock having advanced
C8_Witness ==
    /\ ~rl_result.allowed
    /\ now > 0
    /\ ncalls - Len(admitted[rl_result.user]) >= 2
    /\ Len(user_message_timestamps[rl_result.user]) = MAX_MESSAGES_PER_WINDOW

\* admission resumes after rejected calls
C8_ResumeWitness ==
    /\ rl_result.user # 0
    /\ rl_result.allowed
    /\ Len(admitted[rl_result.user]) > MAX_MESSAGES_PER_WINDOW
    /\ ncalls > Len(admitted[rl_result.user])

\* C9: a call for identity u leaves the stored timestamps of every other
\* identity as they were, and its outcome is that of u's own admissions,
\* through whichever rooms they came.
C9_BudgetPerIdentity ==
    [][\A u \in RateIds, r \in Rooms : CheckRateLimit(u, r) =>
          /\ \A v \in Users \ {u} :
                user_message_timestamps'[v] = user_message_timestamps[v]
          /\ rl_result'.allowed <=> CountInside(u, now) < MAX_MESSAGES_PER_WINDOW
          /\ rl_result'.user = u]_vars

\* an identity is rejected on admissions that came through two rooms, while
\* another identity holds admissions of its own
C9_Witness ==
    /\ ~rl_result.allowed
    /\ Cardinality(viaRooms[rl_result.user]) >= 2
    /\ \E v \in Users \ {rl_result.user} :
          /\ Len(admitted[v]) > 0
          /\ Len(user_message_timestamps[v]) = Len(admitted[v])

\* ------------------------------------------------------------ message properties
\* a string that is empty once trimmed, or longer than the maximum once trimmed
InvalidContent(c) ==
    /\ c # NotAString
    /\ \/ StrLen(strip(c)) = 0
       \/ StrLen(strip(c)) > MAX_MESSAGE_LENGTH

ValidationErrors ==
    {"Message cannot be empty", "Message cannot be only whitespace",
     "Message must be no more than 2000 characters"}

\* C10: a message event whose content is empty after trimming or too long
\* sends one error event, to the sender only, adds nothing to the store,
\* starts no broadcast, changes no registry or limiter state, and once the
\* error is sent the handler is back waiting for its next event.
C10_InvalidMessageRejectedLocally ==
    [][\A h \in Conns :
         /\ (CanReceive(h) /\ nevents' # nevents) => \A ev \in MessageEvents :
              (ev.reply_to <= Len(store) + 1
                 /\ InvalidContent(ev.content) /\ RecvMessage(h, ev)) =>
                /\ Len(errors'[h]) = Len(errors[h]) + 1
                /\ errors'[h][Len(errors'[h])] \in ValidationErrors
                /\ \A x \in Conns \ {h} : errors'[x] = errors[x]
                /\ store' = store
                /\ bc' = bc
                /\ active_connections' = active_connections
                /\ typing_users' = typing_users
                /\ user_message_timestamps' = user_message_timestamps
                /\ pc'[h] = "err_send"
         /\ (pc[h] = "err_send" /\ ErrorResume(h) /\ ~closed[h]) =>
                /\ pc'[h] = "recv"
                /\ store' = store
                /\ bc' = bc
                /\ errors' = errors
                /\ active_connections' = active_connections]_vars

\* a handler that was sent the error for a content that is too long waits
\* for its next event, the store still empty
C10_Witness ==
    \E h \in Conns :
        /\ pc[h] = "recv"
        /\ errors[h] = <<"Message must be no more than 2000 characters">>
        /\ \A x \in Conns \ {h} : errors[x] = <<>>
        /\ store = <<>>
        /\ Registered(active_connections, room[h], user[h])

\* a message event with a content that passes validation
ValidContent(c) == c # NotAString /\ validate_message(strip(c)).is_valid

\* what every step RecvMessage(h, ev) shows of handler h: it leaves
\* receive_json for another await, or a row or an error event is added
Handled(h) ==
    /\ pc[h] = "recv"
    /\ nevents' # nevents
    /\ pc'[h] # "recv" \/ store' # store \/ errors'[h] # errors[h]

HandledByRecvMessage ==
    [][\A h \in Conns : \A ev \in MessageEvents : RecvMessage(h, ev) => Handled(h)]_vars

\* handler h receives message event ev and the limiter admits it
AdmittedMessage(h, ev) ==
    /\ Handled(h) /\ ev.reply_to <= Len(store) + 1
    /\ ValidContent(ev.content)
    /\ RecvMessage(h, ev)
    /\ rl_result'.allowed

\* C11: an admitted message whose reply_to names no message, or a message of
\* another room, sends the sender an error, stores nothing and starts no
\* broadcast; one whose reply_to names a message of the handler's room is
\* stored with that reply_to and its broadcast starts.
C11_ReplyTargetChecked ==
    [][\A h \in Conns : Handled(h) => \A ev \in MessageEvents :
         (ev.reply_to # 0 /\ AdmittedMessage(h, ev)) =>
            IF ev.reply_to \in DOMAIN store /\ store[ev.reply_to].room_id = room[h]
            THEN /\ Len(store') = Len(store) + 1
                 /\ store'[Len(store')].reply_to = ev.reply_to
                 /\ store'[Len(store')].room_id = room[h]
                 /\ errors' = errors
                 /\ bc'[h].kind = "event" /\ bc'[h].got # <<>>
            ELSE /\ errors'[h] = Append(errors[h], "Parent message not found")
                 /\ \A x \in Conns \ {h} : errors'[x] = errors[x]
                 /\ store' = store
                 /\ bc' = bc
                 /\ pc'[h] = "err_send"]_vars

\* a member of room 1 was sent the error for a reply to a message of room 2
C11_Witness ==
    \E h \in Conns :
        /\ pc[h] = "recv" /\ room[h] = 1
        /\ Len(store) = 1 /\ store[1].room_id = 2
        /\ errors[h] = <<"Parent message not found">>
        /\ rl_result.user = user[h] /\ rl_result.allowed

\* a reply to a message of the handler's own room is in the store
C11_AcceptWitness ==
    /\ Len(store) = 2
    /\ store[2].reply_to = 1
    /\ store[1].room_id = store[2].room_id

\* handler h answers the event it received with an error on its own channel
RejectedEvent(h) == Handled(h) /\ errors'[h] # errors[h]

\* C12: an event answered with an error leaves the registry, the typing
\* tracker, the message store and the sender's rate window as they were.
C12_RejectionMutatesNothing ==
    [][\A h \in Conns : RejectedEvent(h) =>
         /\ active_connections' = active_connections
         /\ typing_users' = typing_users
         /\ store' = store
         /\ Recent(user_message_timestamps'[user[h]], now')
              = Recent(user_message_timestamps[user[h]], now)]_vars

\* the window of handler h's identity holds its whole budget
OverBudget(h) ==
    Len(Recent(user_message_timestamps[user[h]], now)) >= MAX_MESSAGES_PER_WINDOW

\* C13: a well-formed message of a sender whose window is full is neither
\* stored nor broadcast; the limiter's detail is sent on the sender's channel
\* and on no other, and the handler returns to receive_json.
C13_OverBudgetRejectedLocally ==
    [][\A h \in Conns :
         /\ (Handled(h) /\ OverBudget(h)) =>
              \A ev \in MessageEvents :
                 (/\ ev.reply_to <= Len(store) + 1
                  /\ ValidContent(ev.content)
                  /\ RecvMessage(h, ev)) =>
                     /\ store' = store
                     /\ bc' = bc
                     /\ active_connections' = active_connections
                     /\ errors'[h] = Append(errors[h], RateDetail)
                     /\ \A x \in Conns \ {h} : errors'[x] = errors[x]
                     /\ pc'[h] = "err_send"
         /\ (pc[h] = "err_send" /\ ErrorResume(h) /\ ~closed[h]) =>
              pc'[h] = "recv" /\ store' = store /\ bc' = bc]_vars

\* the sender with a full window was sent the limiter's detail and is back in
\* receive_json, the store still holding its MAX_MESSAGES_PER_WINDOW messages
C13_Witness ==
    \E h \in Conns :
        /\ pc[h] = "recv" /\ user[h] = 1
        /\ errors[h] = <<RateDetail>>
        /\ Len(store) = MAX_MESSAGES_PER_WINDOW
        /\ ~rl_result.allowed /\ rl_result.user = 1

\* validation and budget rejections change nothing shared
OtherRejectionsMutateNothing ==
    [][\A h \in Conns :
         (RejectedEvent(h) /\ errors'[h][Len(errors'[h])] # "Parent message not found") =>
            /\ active_connections' = active_connections
            /\ typing_users' = typing_users
            /\ store' = store
            /\ Recent(user_message_timestamps'[user[h]], now')
                 = Recent(user_message_timestamps[user[h]], now)]_vars

\* ---- authentication properties ----

\* no credential, an invalid or expired one, or one naming no known identity
BadCredential(cred) == cred.kind \in {"none", "invalid"} \/ cred.sub \notin Users

\* the handles held by the registry
HeldHandles == UNION {{Slots(r)[i].ws : i \in DOMAIN Slots(r)} : r \in Rooms}

\* C14: a connection opened with a bad credential is closed at once, with
\* the registry and every broadcast as they were, and from then on it takes
\* no step: it is never registered, never broadcasts, never receives.
C14_RejectedBeforeActivation ==
    [][\A h \in Conns :
         /\ (pc[h] = "idle" /\ pc'[h] # "idle") =>
              \A r \in Rooms, c \in Credentials :
                 (BadCredential(c) /\ (Reject(h, r, c) \/ Connect(h, r, c, AuthWs))) =>
                    /\ pc'[h] = "rejected" /\ closed'[h]
                    /\ active_connections' = active_connections
                    /\ bc' = bc
                    /\ room'[h] = 0 /\ user'[h] = 0
         /\ pc[h] = "rejected" =>
              /\ pc'[h] = "rejected"
              /\ bc'[h] = IdleFrame
              /\ h \notin HeldHandles']_vars

\* a connection was turned away while another one registered after it
C14_Witness ==
    \E h, x \in Conns :
        /\ pc[h] = "rejected" /\ closed[h]
        /\ h < x /\ pc[x] = "recv"
        /\ x \in HeldHandles /\ h \notin HeldHandles

\* ---- delivery properties ----

\* a message event in a broadcast carries the id of a row already in the store
PersistedBeforeBroadcast ==
    \A h \in Conns :
        (pc[h] = "bc_send" /\ bc[h].message.type = "message") =>
          /\ bc[h].message.id \in DOMAIN store
          /\ store[bc[h].message.id].user_id = user[h]
          /\ store[bc[h].message.id].room_id = room[h]

\* C15: a message event in a broadcast carries the id of a row already in
\* the store, written for the sender and the room of the handler, and when
\* the broadcast ends every member of the room at call time that is still
\* registered on an open channel, the sender included, has been sent it.
C15_PersistedThenBroadcastToAll ==
    \A h \in Conns :
        (pc[h] = "bc_send" /\ bc[h].message.type = "message") =>
          LET f == bc[h]
              g == Resumed(h) IN
          /\ f.message.id \in DOMAIN store
          /\ store[f.message.id].user_id = f.message.user_id
          /\ store[f.message.id].room_id = room[h]
          /\ g.outcome \in {"end", "raised"} =>
               \A i \in DOMAIN f.snap :
                  (/\ f.snap[i].u # 0
                   /\ Handle(active_connections, room[h], f.snap[i].u) = f.snap[i].ws
                   /\ Healthy(f.snap[i].ws))
                    => \E j \in DOMAIN g.got : g.got[j] = f.snap[i].ws

\* C16: a typing event of identity A in room R carries A and the signalled
\* state, is sent to handles of R only and never to A, and when its broadcast
\* ends every other member of R at call time that is still registered on an
\* open channel has been sent it exactly once.
C16_TypingReachesOthers ==
    \A h \in Conns :
        (pc[h] = "bc_send" /\ bc[h].message.type = "typing") =>
          LET f == bc[h]
              g == Resumed(h) IN
          /\ f.message.user_id = user[h]
          /\ \A j \in DOMAIN g.got :
               /\ g.got[j] # h
               /\ \E i \in DOMAIN f.snap : f.snap[i].ws = g.got[j]
          /\ g.outcome \in {"end", "raised"} =>
               \A i \in DOMAIN f.snap :
                  (/\ f.snap[i].u \notin {0, user[h]}
                   /\ Handle(active_connections, room[h], f.snap[i].u) = f.snap[i].ws
                   /\ Healthy(f.snap[i].ws))
                    => Count(g.got, f.snap[i].ws) = 1

\* the typing fan-out when no one joins or leaves the room during it
TypingReachesOthersUndisturbed ==
    \A h \in Conns :
        (pc[h] = "bc_send" /\ bc[h].message.type = "typing" /\ Undisturbed(h)) =>
          LET f == bc[h]
              g == Resumed(h) IN
          /\ f.message.user_id = user[h]
          /\ g.outcome # "raised"
          /\ \A j \in DOMAIN g.got :
               /\ g.got[j] # h
               /\ \E i \in DOMAIN f.snap : f.snap[i].ws = g.got[j]
          /\ g.outcome = "end" =>
               \A i \in DOMAIN f.snap :
                  (f.snap[i].u \notin {0, user[h]} /\ Healthy(f.snap[i].ws))
                    => Count(g.got, f.snap[i].ws) = 1

\* C17: once the handler of an identity has terminated, and no other handler
\* serves that identity in the room, typing_users holds no entry for it.
C17_TypingEntryEndsWithHandler ==
    \A h \in Conns :
        (/\ pc[h] \in {"done", "crashed"}
         /\ \A x \in Live : ~(room[x] = room[h] /\ user[x] = user[h]))
          => user[h] \notin typing_users[room[h]]

\* C18: after a peer close the handler of A has deregistered A and
\* broadcasts user_left for A: get_room_users no longer contains A, A's
\* handle is not sent the event, and when the broadcast ends every member
\* still registered on an open channel has been sent it.
C18_PeerCloseAnnounced ==
    \A h \in Conns :
        (pc[h] = "bc_send" /\ bc[h].kind = "left_graceful") =>
          LET f == bc[h]
              g == Resumed(h) IN
          /\ f.message = user_event("user_left", user[h])
          /\ (\A x \in Live \ {h} : ~(room[x] = room[h] /\ user[x] = user[h]))
               => user[h] \notin get_room_users(active_connections, room[h])
          /\ \A j \in DOMAIN g.got : g.got[j] # h
          /\ g.outcome \in {"end", "raised"} =>
               \A i \in DOMAIN f.snap :
                  (/\ f.snap[i].u # 0
                   /\ Handle(active_connections, room[h], f.snap[i].u) = f.snap[i].ws
                   /\ Healthy(f.snap[i].ws))
                    => \E j \in DOMAIN g.got : g.got[j] = f.snap[i].ws

\* the user_left broadcast of a peer close, apart from who is sent it
PeerCloseDeregisters ==
    \A h \in Conns :
        (pc[h] = "bc_send" /\ bc[h].kind = "left_graceful") =>
          /\ bc[h].message = user_event("user_left", user[h])
          /\ Handle(active_connections, room[h], user[h]) # h
          /\ \A j \in DOMAIN Resumed(h).got : Resumed(h).got[j] # h

\* handler h is in its event loop or in the cleanup that follows it
InLoopOrCleanup(h) ==
    \/ pc[h] \in {"recv", "err_send"}
    \/ pc[h] = "bc_send" /\ bc[h].kind \in {"event", "left_graceful", "left_failure"}

\* C19: a handler that leaves its event loop, by a peer close or by a
\* failure, ends with its registration removed and without an exception
\* escaping it, whatever its cleanup broadcast raises.
C19_CleanupSwallowsErrors ==
    [][\A h \in Conns :
         InLoopOrCleanup(h) =>
            /\ pc'[h] # "crashed"
            /\ pc'[h] = "done" => Handle(active_connections', room[h], user[h]) # h]_vars

\* ---- reaction properties ----

\* the reaction map m after identity u toggled emoji e
Toggled(m, e, u) ==
    IF e \in DOMAIN m /\ InList(m[e], u)
    THEN IF \A k \in DOMAIN m[e] : m[e][k] = u
         THEN [x \in DOMAIN m \ {e} |-> m[x]]
         ELSE [m EXCEPT ![e] = SelectSeq(@, LAMBDA v : v # u)]
    ELSE [x \in DOMAIN m \cup {e} |-> IF x = e /\ e \notin DOMAIN m THEN <<u>>
                                       ELSE IF x = e THEN Append(m[e], u)
                                       ELSE m[x]]

\* C20: a reaction event that names an emoji and a message of the handler's
\* room leaves the row with the toggled reaction map, and that map is the
\* one broadcast.
C20_ReactionToggle ==
    [][\A h \in Conns : Handled(h) => \A ev \in ReactionEvents :
         (/\ ev.message_id \in DOMAIN store
          /\ store[ev.message_id].room_id = room[h]
          /\ EmojiStrip(ev.emoji) # ""
          /\ RecvReaction(h, ev)) =>
            LET before == store[ev.message_id].reactions.map
                after == Toggled(before, EmojiStrip(ev.emoji), user[h]) IN
            /\ store'[ev.message_id].reactions.map = after
            /\ bc'[h].message = reaction_update(ev.message_id, after)]_vars
\* the last two toggles acted on the same message for the same identity
\* with the same emoji
SameToggleTwice ==
    /\ Len(toggles) = 2
    /\ toggles[1].message_id = toggles[2].message_id
    /\ toggles[1].user_id = toggles[2].user_id
    /\ toggles[1].emoji = toggles[2].emoji

AtMostOnce(l, u) == \A i, j \in DOMAIN l : l[i] = u /\ l[j] = u => i = j

\* C22: toggles on a message are serialized across events and requests: no
\* identity is listed twice under an emoji, no emoji is mapped to an empty
\* list, and each toggle leaves the map that the toggle applied to the map
\* left by the one before it gives, so that the final map is the toggles
\* applied one after the other.
C22_TogglesSerialized ==
    /\ \A m \in DOMAIN store :
          LET map == store[m].reactions.map IN
          \A e \in DOMAIN map :
              /\ map[e] # <<>>
              /\ \A u \in Users : AtMostOnce(map[e], u)
    /\ \A i \in DOMAIN toggles :
          toggles[i].after = Toggled(toggles[i].before, toggles[i].emoji,
                                     toggles[i].user_id)
    /\ \A i \in DOMAIN toggles :
          (i > 1 /\ toggles[i].message_id = toggles[i - 1].message_id) =>
              toggles[i].before = toggles[i - 1].after
\* the step leaves task h either suspended in the one broadcast of message
\* msg to room r, or past it with no frame left to send
OneBroadcast(h, r, msg) ==
    IF pc'[h] = "bc_send"
    THEN bc'[h].message = msg /\ room'[h] = r /\ bc'[h].excl = 0
    ELSE bc'[h] = IdleFrame

\* a request to toggle_reaction starts being served in task h
Requested(h) == pc[h] = "idle" /\ pc'[h] # "idle"

\* C23: a reaction event on a message of the handler's room does what the
\* toggle_reaction request of the same identity for the same message and
\* emoji does on the same table: the same table results and the same map is
\* reported; and every successful toggle, by either entry point, makes one
\* broadcast of reaction_update to the message's room with the map the row
\* then holds.
C23_EntryPointsEquivalent ==
    [][\A h \in Conns :
         /\ Handled(h) => \A ev \in ReactionEvents :
               (/\ ParentFound(store, ev.message_id, room[h])
                /\ ev.emoji.sym # ""
                /\ RecvReaction(h, ev)) =>
                  LET res == toggle_reaction(store, ev.message_id, user[h], ev.emoji) IN
                  /\ res.status = 200
                  /\ res.store = store'
                  /\ res.room_id = room[h]
                  /\ res.reactions = store'[ev.message_id].reactions.map
                  /\ OneBroadcast(h, room[h],
                                  reaction_update(ev.message_id, res.reactions))
         /\ Requested(h) => \A u \in Requesters, m \in DOMAIN store, e \in EmojiInputs :
               (e.sym # "" /\ ToggleReaction(h, u, m, e)) =>
                  OneBroadcast(h, store[m].room_id,
                               reaction_update(m, store'[m].reactions.map))]_vars

\* an event and a request have toggled the same message for the same
\* identity with the same emoji, and the request's broadcast is under way
C23_Witness ==
    /\ SameToggleTwice
    /\ toggles[1].via = "event" /\ toggles[2].via = "request"
    /\ \E h \in Conns : pc[h] = "bc_send" /\ bc[h].kind = "http"
\* a reaction event that handler h must refuse: no message_id, an emoji that
\* is blank once trimmed, or a message that is unknown or of another room
InvalidReactionEvent(h, ev) ==
    \/ ev.message_id = 0
    \/ ev.emoji.sym = ""
    \/ ev.message_id \notin DOMAIN store
    \/ store[ev.message_id].room_id # room[h]

\* a toggle_reaction request that must be refused: unknown message or an
\* emoji that is blank once trimmed
InvalidReactionRequest(m, e) == m \notin DOMAIN store \/ e.sym = ""

\* C24: an invalid reaction event is answered with one error event on the
\* sender's channel and an invalid toggle_reaction request with an error
\* response; in both cases no row of the store changes, no toggle is
\* recorded and no broadcast is started.
C24_InvalidReactionChangesNothing ==
    [][\A h \in Conns :
         /\ Handled(h) => \A ev \in ReactionEvents :
               (InvalidReactionEvent(h, ev) /\ RecvReaction(h, ev)) =>
                  /\ store' = store /\ toggles' = toggles
                  /\ bc' = bc /\ active_connections' = active_connections
                  /\ pc'[h] = "err_send"
                  /\ Len(errors'[h]) = Len(errors[h]) + 1
                  /\ \A x \in Conns \ {h} : errors'[x] = errors[x]
         /\ Requested(h) => \A u \in Requesters, m \in ReplyTargets, e \in EmojiInputs :
               (InvalidReactionRequest(m, e) /\ ToggleReaction(h, u, m, e)) =>
                  /\ store' = store /\ toggles' = toggles
                  /\ bc' = bc /\ active_connections' = active_connections
                  /\ pc'[h] = "http_raised"
                  /\ errors'[h] # errors[h]]_vars

\* a handler has answered an event with the error of the field check and a
\* request was refused for its blank emoji, with no toggle made
C24_Witness ==
    /\ toggles = <<>>
    /\ \E h \in Conns : pc[h] = "err_send"
          /\ errors[h] = <<"message_id and emoji required">>
    /\ \E h \in Conns : pc[h] = "http_raised"
          /\ errors[h] = <<"Emoji cannot be empty">>

\* a handler has answered with "Message not found" an event that names a
\* message of another room
C24_WitnessOtherRoom ==
    \E h \in Conns : pc[h] = "err_send" /\ errors[h] = <<"Message not found">>
\* ---- dispatch properties ----

\* C25: an event whose type is none of message, typing, reaction is dropped:
\* no error event, no broadcast, the registry, the typing tracker, the rate
\* windows and the store stay as they were, and the handler is back at
\* receive_json.
C25_UnknownTypeIgnored ==
    [][\A h \in Conns : (pc[h] = "recv" /\ nevents' # nevents) =>
         \A ev \in OtherEvents :
            (ev.type \notin {"message", "typing", "reaction"} /\ RecvOther(h, ev)) =>
               /\ errors' = errors
               /\ bc' = bc
               /\ active_connections' = active_connections
               /\ typing_users' = typing_users
               /\ user_message_timestamps' = user_message_timestamps
               /\ store' = store
               /\ pc'[h] = "recv"]_vars

\* an event was received, and no message is stored, no error was sent and
\* every member is at receive_json with no broadcast under way
C25_Witness ==
    /\ nevents > 0
    /\ store = <<>>
    /\ \A h \in Conns : errors[h] = <<>> /\ bc[h] = IdleFrame
    /\ \E h \in Conns : pc[h] = "recv"
    /\ \A h \in Conns : pc[h] \in {"recv", "idle"}
\* ---- join properties ----

\* C26: the user_joined broadcast of connect starts with the new handle
\* installed, carries the joining identity, is not sent to the joiner's own
\* handle, and when it ends every other member of the room at call time that
\* is still registered on an open channel has been sent it.
C26_JoinAnnouncedToOthers ==
    \A h \in Conns :
        (pc[h] = "bc_send" /\ bc[h].kind = "joined") =>
          LET f == bc[h]
              g == Resumed(h) IN
          /\ f.message = user_event("user_joined", user[h])
          /\ \E i \in DOMAIN f.snap : f.snap[i].u = user[h] /\ f.snap[i].ws = h
          /\ \A j \in DOMAIN g.got : g.got[j] # h
          /\ g.outcome \in {"end", "raised"} =>
               \A i \in DOMAIN f.snap :
                  (/\ f.snap[i].u \notin {0, user[h]}
                   /\ Handle(active_connections, room[h], f.snap[i].u) = f.snap[i].ws
                   /\ Healthy(f.snap[i].ws))
                    => \E j \in DOMAIN g.got : g.got[j] = f.snap[i].ws

\* the user_joined broadcast when no one joins or leaves the room during it
JoinAnnouncedUndisturbed ==
    \A h \in Conns :
        (pc[h] = "bc_send" /\ bc[h].kind = "joined" /\ Undisturbed(h)) =>
          LET f == bc[h]
              g == Resumed(h) IN
          /\ f.message = user_event("user_joined", user[h])
          /\ \E i \in DOMAIN f.snap : f.snap[i].u = user[h] /\ f.snap[i].ws = h
          /\ g.outcome # "raised"
          /\ \A j \in DOMAIN g.got : g.got[j] # h
          /\ g.outcome = "end" =>
               \A i \in DOMAIN f.snap :
                  (f.snap[i].u \notin {0, user[h]} /\ Healthy(f.snap[i].ws))
                    => Count(g.got, f.snap[i].ws) = 1
\* ---- registry shape ----

\* a connect on room r is past the removal of a superseded entry and has not
\* installed its handle yet
ConnectInProgress(r) == \E h \in Conns : pc[h] = "conn_accept" /\ room[h] = r

\* C27: a room key that is in active_connections while no connect is in
\* progress on the room has at least one member.
C27_NoEmptyRoomKept ==
    \A r \in Rooms :
        (active_connections[r].present /\ ~ConnectInProgress(r)) =>
            get_room_users(active_connections, r) # {}
\* a handler has ended after removing the last member of its room, and the
\* room key is gone
C27_Witness ==
    \E h \in Conns :
        /\ pc[h] = "done"
        /\ ~active_connections[room[h]].present

\* a connect has removed the superseded entry, the only one of its room, and
\* has not installed its handle yet
EmptyDuringConnect ==
    \E r \in Rooms :
        /\ ConnectInProgress(r)
        /\ active_connections[r].present
        /\ get_room_users(active_connections, r) = {}
\* ---- room scoping ----

\* C28: every handle a broadcast has sent its event to, or sends it to when
\* it resumes, belongs to a connection of the room the broadcast is for,
\* also when the same identity is a member of another room.
C28_BroadcastStaysInRoom ==
    \A h \in Conns :
        pc[h] = "bc_send" =>
          /\ \A j \in DOMAIN bc[h].got : room[bc[h].got[j]] = room[h]
          /\ \A j \in DOMAIN Resumed(h).got : room[Resumed(h).got[j]] = room[h]

\* a broadcast of room 2 has sent its event to a member whose identity is
\* registered in room 1 as well
C28_Witness ==
    \E h \in Conns :
        /\ pc[h] = "bc_send" /\ room[h] = 2
        /\ \E j \in DOMAIN bc[h].got :
              Registered(active_connections, 1, user[bc[h].got[j]])
\* ---- reply summary ----

\* C29: the message event of a stored reply carries in reply_to_message the
\* parent's id, the display name of the parent's author, and the parent's
\* content: whole and without ellipsis when it has at most 50 characters,
\* else its first 50 characters followed by "...".
C29_ReplySummary ==
    \A h \in Conns :
        (/\ pc[h] = "bc_send" /\ bc[h].message.type = "message"
         /\ store[bc[h].message.id].reply_to # 0) =>
          LET p == store[bc[h].message.id].reply_to
              s == bc[h].message.reply_to_message IN
          /\ p \in DOMAIN store
          /\ s.id = p
          /\ s.display_name = display_name(store[p].user_id)
          /\ StrLen(store[p].content) <= 50 =>
                s.content = [prefix |-> StrLen(store[p].content), dots |-> FALSE]
          /\ StrLen(store[p].content) > 50 =>
                s.content = [prefix |-> 50, dots |-> TRUE]

\* a reply to a parent of exactly 50 characters, written by another
\* identity than the sender, is being broadcast
C29_Witness ==
    \E h \in Conns :
        /\ pc[h] = "bc_send" /\ bc[h].message.type = "message"
        /\ store[bc[h].message.id].reply_to # 0
        /\ StrLen(store[store[bc[h].message.id].reply_to].content) = 50
        /\ store[store[bc[h].message.id].reply_to].user_id # user[h]

\* a reply to a parent of more than 50 characters is being broadcast
C29_WitnessLong ==
    \E h \in Conns :
        /\ pc[h] = "bc_send" /\ bc[h].message.type = "message"
        /\ store[bc[h].message.id].reply_to # 0
        /\ StrLen(store[store[bc[h].message.id].reply_to].content) = MAX_MESSAGE_LENGTH
\* ---- life cycle ----

\* the state of handler h: 0 not started, 1 Connecting, 2 Active (its loop
\* and the cleanup it ends with), 3 Terminated
Phase(p, f) ==
    IF p = "idle" THEN 0
    ELSE IF p \in {"conn_close", "conn_accept"} \/ (p = "bc_send" /\ f.kind = "joined") THEN 1
    ELSE IF p \in {"rejected", "done", "crashed"} THEN 3
    ELSE 2

Terminated(h) == Phase(pc[h], bc[h]) = 3

\* the peer of h has closed the channel, or h is in the cleanup that follows
\* a close or a failed read
Leaving(h) ==
    \/ peerGone[h] /\ pc[h] # "idle"
    \/ pc[h] = "bc_send" /\ bc[h].kind \in {"left_graceful", "left_failure"}

\* a handler whose peer closed or whose read failed reaches Terminated
EventuallyTerminated == \A h \in Conns : Leaving(h) ~> Terminated(h)

\* a step in which the registry changes or a broadcast is started or resumed
\* is the step of a handler that is not Terminated
StepOfLiveHandler ==
    active_connections' # active_connections \/ bc' # bc =>
        \E x \in Conns : ~Terminated(x) /\ (pc'[x] # pc[x] \/ bc'[x] # bc[x])

\* the states of a handler follow one another in the order Connecting,
\* Active, Terminated, and a Terminated handler stays as it is
OrderedAndAbsorbing ==
    \A h \in Conns :
        /\ Phase(pc'[h], bc'[h]) >= Phase(pc[h], bc[h])
        /\ (Phase(pc[h], bc[h]) = 0 /\ Phase(pc'[h], bc'[h]) = 2) => FALSE
        /\ Terminated(h) => pc'[h] = pc[h] /\ bc'[h] = bc[h]

\* C30: every handler whose peer closed the channel or whose read failed
\* eventually is Terminated; a Terminated handler takes no further step, so
\* it changes the registry and broadcasts no more; and a handler goes
\* through Connecting, Active, Terminated in that order only.
C30_Lifecycle ==
    /\ EventuallyTerminated
    /\ [][OrderedAndAbsorbing /\ StepOfLiveHandler]_vars

\* a handler that was Active has ended after its peer closed the channel,
\* and another after a failed read
C30_Witness ==
    /\ \E h \in Conns : pc[h] = "done" /\ peerGone[h]
    /\ \E h \in Conns : pc[h] \in {"done", "crashed"} /\ ~peerGone[h] /\ ~closed[h]
\* ---- typing tracker ----

\* C31: a typing event of handler h with is_typing True leaves the pair
\* (room, identity) of h in the tracker, whether it was there or not, and one
\* with is_typing False leaves it out, whether it was there or not; no other
\* pair is added or removed; and the call makes one broadcast, of the typing
\* event, which excludes the sender.
C31_TypingTrackerUpsert ==
    [][\A h \in Conns : (pc[h] = "recv" /\ nevents' # nevents) =>
         \A ev \in TypingEvents : RecvTyping(h, ev) =>
            /\ (user[h] \in typing_users'[room[h]]) = ev.is_typing
            /\ \A r \in Rooms, u \in Users :
                  (r # room[h] \/ u # user[h]) =>
                     ((u \in typing_users'[r]) = (u \in typing_users[r]))
            /\ IF pc'[h] = "bc_send"
               THEN /\ bc'[h].message = typing_event(user[h], ev.is_typing)
                    /\ bc'[h].excl = user[h]
               ELSE pc'[h] = "recv" /\ bc'[h] = IdleFrame]_vars

\* identity 1, already tracked as typing in both rooms, has signalled typing
\* again in room 1 and its broadcast is under way
C31_Witness ==
    \E h \in Conns :
        /\ pc[h] = "bc_send" /\ room[h] = 1 /\ user[h] = 1
        /\ bc[h].message = typing_event(1, TRUE)
        /\ typing_users[1] = {1} /\ typing_users[2] = {1}

\* identity 1 has signalled the end of typing in room 1 and is still tracked
\* as typing in room 2
C31_WitnessStop ==
    \E h \in Conns :
        /\ pc[h] = "bc_send" /\ room[h] = 1 /\ user[h] = 1
        /\ bc[h].message = typing_event(1, FALSE)
        /\ typing_users[1] = {} /\ typing_users[2] = {1}
\* ---- disconnect ----

\* C32: disconnect(R, U) applied to the registry leaves (R, U) unregistered,
\* changes nothing when the pair was not registered, leaves the handle of
\* every other pair, in R and in other rooms, as it was, and applied a second
\* time changes nothing more.
C32_DisconnectRemovesOnlyThePair ==
    \A r \in Rooms, u \in Users :
        LET ac == active_connections
            ac2 == disconnect(ac, r, u) IN
        IF ~Registered(ac, r, u)
        THEN ac2 = ac
        ELSE /\ ~Registered(ac2, r, u)
             /\ \A v \in Users \ {u} : Handle(ac2, r, v) = Handle(ac, r, v)
             /\ \A q \in Rooms \ {r} : ac2[q] = ac[q]
             /\ disconnect(ac2, r, u) = ac2

\* a handler has ended and its pair is deregistered, while its room keeps
\* another member and its identity is still registered in the other room
C32_Witness ==
    \E h \in Conns :
        /\ pc[h] = "done"
        /\ ~Registered(active_connections, room[h], user[h])
        /\ get_room_users(active_connections, room[h]) # {}
        /\ Registered(active_connections, IF room[h] = 1 THEN 2 ELSE 1, user[h])
\* ---- window boundary ----

\* C33: a call of check_rate_limit discards only the stored timestamps that
\* are strictly older than W seconds: a timestamp exactly W old is kept and
\* counts toward the cap N for that call.
C33_ExactlyWindowOldCounts ==
    [][\A u \in RateIds, r \in Rooms : CheckRateLimit(u, r) =>
          LET kept == SelectSeq(user_message_timestamps[u],
                                LAMBDA ts : ts >= now - TIME_WINDOW_SECONDS) IN
          /\ rl_result'.allowed <=> Len(kept) < MAX_MESSAGES_PER_WINDOW
          /\ user_message_timestamps'[u] =
                IF rl_result'.allowed THEN Append(kept, now) ELSE kept]_vars
\* ---- Active handlers ----

\* handler h is Active: connect has returned and h is in its event loop,
\* reading, answering or broadcasting an event
Active(h) ==
    \/ pc[h] \in {"recv", "err_send"}
    \/ pc[h] = "bc_send" /\ bc[h].kind = "event"

\* C34: whenever a handler is Active on a channel that is open at both ends,
\* so that it keeps processing events, the registry maps its (room, identity)
\* to that handler's own handle.
C34_ActiveIsRegistered ==
    \A h \in Conns :
        (Active(h) /\ Healthy(h)) => Handle(active_connections, room[h], user[h]) = h
\* ---- registry entries and their handlers ----

\* the handles stored in the registry
Stored ==
    {h \in Conns : \E r \in Rooms : \E i \in DOMAIN Slots(r) :
                      Slots(r)[i].u # 0 /\ Slots(r)[i].ws = h}

\* C35: every handle stored in the registry belongs to a handler that is
\* Active or still inside connect; no entry outlives its handler.
C35_NoEntryOutlivesHandler ==
    \A h \in Conns :
        h \in Stored => (Active(h) \/ Phase(pc[h], bc[h]) = 1)
\* ---- delivery-failure cleanup ----

\* C36: the cleanup pass of a fan-out removes only handles whose send failed:
\* when the broadcast of h resumes and runs to its cleanup pass, no entry
\* whose handle is on a channel open at both ends, on which no send can have
\* failed, is removed by it.
C36_CleanupRemovesOnlyFailedHandle ==
    \A h \in Conns :
        (pc[h] = "bc_send" /\ Resumed(h).outcome = "end") =>
            LET ac2 == disconnectAll(active_connections, room[h], Resumed(h).disc) IN
            \A x \in Conns :
                (Healthy(x) /\ Handle(active_connections, room[h], user[x]) = x)
                    => Handle(ac2, room[h], user[x]) = x
\* ---- connect over a vanished entry ----

\* C37: connect resuming after it closed the old handle never raises on the
\* removal of the superseded entry, whoever removed that entry meanwhile: it
\* goes on to accept(), after which the new handle is installed.
C37_ConnectSurvivesRemoval ==
    [][\A h \in Conns :
         (pc[h] = "conn_close" /\ pc'[h] # "conn_close") => pc'[h] = "conn_accept"]_vars
\* ---- stored window ----

\* C38: after a call of check_rate_limit(u), whatever it returns, the
\* timestamps stored for u are at most N and each is less than W seconds old,
\* and the timestamps stored for every other identity are as they were.
C38_StoredWindowBounded ==
    [][\A u \in RateIds, r \in Rooms : CheckRateLimit(u, r) =>
          /\ Len(user_message_timestamps'[u]) <= MAX_MESSAGES_PER_WINDOW
          /\ \A i \in DOMAIN user_message_timestamps'[u] :
                /\ user_message_timestamps'[u][i] > now - TIME_WINDOW_SECONDS
                /\ user_message_timestamps'[u][i] <= now
          /\ \A v \in Users \ {u} :
                user_message_timestamps'[v] = user_message_timestamps[v]]_vars

\* a call of identity 1 is rejected on N stored timestamps after an older
\* admission of its own was pruned, while identity 2 still holds a timestamp
\* that has left the window
C38_Witness ==
    /\ rl_result.user = 1 /\ ~rl_result.allowed
    /\ Len(user_message_timestamps[1]) = MAX_MESSAGES_PER_WINDOW
    /\ Len(admitted[1]) > MAX_MESSAGES_PER_WINDOW
    /\ now >= TIME_WINDOW_SECONDS
    /\ user_message_timestamps[2] = <<0>>

\* a call of identity 1 is admitted and leaves fewer timestamps stored than
\* it has admissions
C38_WitnessAdmitted ==
    /\ rl_result.user = 1 /\ rl_result.allowed
    /\ Len(user_message_timestamps[1]) < Len(admitted[1])
    /\ user_message_timestamps[2] = <<0>>
\* ---- presence events ----

\* the presence events sent to handle b about identity u, in order
About(b, u) == SelectSeq(presence[b], LAMBDA e : e.user_id = u)

\* no handler is in the middle of an operation
Quiescent == \A h \in Conns : pc[h] \in {"idle", "recv", "rejected", "done", "crashed"}

\* C39: for a member on handle b that is still registered, on a channel open
\* at both ends, the user_joined and user_left events sent to b about another
\* identity u alternate, and whenever no handler is mid-operation u is in
\* get_room_users of the room exactly when the last of them is user_joined.
C39_PresenceConsistent ==
    \A b \in Conns :
        (/\ room[b] # 0
         /\ Handle(active_connections, room[b], user[b]) = b
         /\ Healthy(b)) =>
            \A u \in Users \ {user[b]} :
                LET sq == About(b, u) IN
                /\ \A i \in 1..(Len(sq) - 1) : sq[i].type # sq[i + 1].type
                /\ (Quiescent /\ sq # <<>>) =>
                      (u \in get_room_users(active_connections, room[b])
                         <=> sq[Len(sq)].type = "user_joined")

====
